---- MODULE Spec2Model ----
(***************************************************************************)
(* Model of the R2 uploader plugin (tripkmin/obsidian-r2-uploader).        *)
(*                                                                         *)
(* Text (document text, image targets, vault paths, URLs) is a sequence of *)
(* fragments.  The characters the code's regular expressions and string    *)
(* tests tell apart are fragments of their own ("!", "[", "]", "(", ")",   *)
(* "/", ".", "-", "_", " ", "$", "&", "'", "`", "?", "#"); a run of        *)
(* characters none of them looks into ("pic", "png", "https://") is one    *)
(* fragment.                                                               *)
(***************************************************************************)
EXTENDS Integers, Sequences, FiniteSets, TLC

VARIABLES
    settings,     \* this.settings (R2UploaderSettings)
    r2Uploader,   \* this.r2Uploader: [present, cfg]
    savesInFlight,\* saveSettings calls suspended on saveData
    settingChanges,\* onChange callbacks of the settings tab so far
    settingsDirty,\* a settings field was assigned since setupR2Uploader last ran
    vaultFiles,   \* app.vault.getFiles(): the non-markdown files, in vault order
    linkIndex,    \* whether metadataCache resolves link paths (host index built)
    attachmentFolderPath, \* app.vault.config.attachmentFolderPath
    docText,      \* text of every markdown document (editor buffer / vault file)
    activeFile,   \* app.workspace.getActiveFile(): a document or NoFile
    pc,           \* where the running publish command is suspended
    job,          \* locals of the running publish command
    ret,          \* what the last uploadLocalImagesInContent call returned
    log,          \* what the running command did: reads, downloads, uploads, notices
    editor,       \* paste/drop world: text of the active editor
    pasteOps,     \* paste/drop world: handler invocations and their uploads
    hostPastes,   \* PasteEventCopy events handed to the host's paste handler
    instances,    \* uploader world: every R2Uploader object constructed so far
    calls,        \* uploader world: the upload() calls made, in flight or settled
    applied       \* the last application of one of the pure helper functions

vars == << settings, r2Uploader, savesInFlight, settingChanges, settingsDirty, vaultFiles, linkIndex,
           attachmentFolderPath, docText, activeFile, pc, job, ret, log, editor,
           pasteOps, hostPastes, instances, calls, applied >>

uploaderVars == << instances, calls, applied >>

\* No pure helper has been applied yet.
NotApplied == [ fn |-> "none" ]

(***************************************************************************)
(* Bounds of the model.                                                    *)
(***************************************************************************)
MaxSegs == 2
MaxEvents == 1
MaxFiles == 2
MaxSettingChanges == 1
MaxConfigChanges == 1
MaxCalls == 2
MaxEdits == 1

(***************************************************************************)
(* JavaScript string primitives on fragment sequences.                     *)
(***************************************************************************)
startsWith(s, p) == Len(s) >= Len(p) /\ SubSeq(s, 1, Len(p)) = p

endsWith(s, p) == Len(s) >= Len(p) /\ SubSeq(s, Len(s) - Len(p) + 1, Len(s)) = p

\* String.prototype.indexOf(t, from), 1-based; 0 when t does not occur.
RECURSIVE indexOf(_, _, _)
indexOf(s, t, from) ==
    IF from + Len(t) - 1 > Len(s) THEN 0
    ELSE IF SubSeq(s, from, from + Len(t) - 1) = t THEN from
    ELSE indexOf(s, t, from + 1)

\* Position of the first fragment c at or after from; 0 when there is none.
RECURSIVE firstAt(_, _, _)
firstAt(s, c, from) ==
    IF from > Len(s) THEN 0
    ELSE IF s[from] = c THEN from
    ELSE firstAt(s, c, from + 1)

lastIndexOf(s, c) ==
    LET hits == { i \in 1..Len(s) : s[i] = c }
    IN  IF hits = {} THEN 0 ELSE CHOOSE i \in hits : \A j \in hits : j <= i

\* String.prototype.split(c): the pieces between the occurrences of fragment c.
RECURSIVE split(_, _)
split(s, c) ==
    LET i == firstAt(s, c, 1)
    IN  IF i = 0 THEN << s >>
        ELSE << SubSeq(s, 1, i - 1) >> \o split(SubSeq(s, i + 1, Len(s)), c)

\* Array.prototype.join(c).
RECURSIVE joinWith(_, _)
joinWith(parts, c) ==
    IF Len(parts) = 0 THEN << >>
    ELSE IF Len(parts) = 1 THEN parts[1]
    ELSE parts[1] \o << c >> \o joinWith(Tail(parts), c)

\* GetSubstitution of ECMAScript for a string pattern (no captures): in the
\* replacement text "$$" is "$", "$&" the matched text, "$`" the text before the
\* match, "$'" the text after it; any other "$" is literal.
RECURSIVE getSubstitution(_, _, _, _)
getSubstitution(matched, before, after, replacement) ==
    IF Len(replacement) = 0 THEN << >>
    ELSE IF replacement[1] = "$" /\ Len(replacement) >= 2
              /\ replacement[2] \in { "$", "&", "`", "'" }
    THEN ( CASE replacement[2] = "$" -> << "$" >>
             [] replacement[2] = "&" -> matched
             [] replacement[2] = "`" -> before
             [] replacement[2] = "'" -> after )
         \o getSubstitution(matched, before, after, SubSeq(replacement, 3, Len(replacement)))
    ELSE << replacement[1] >>
         \o getSubstitution(matched, before, after, Tail(replacement))

\* String.prototype.replaceAll(searchValue, replaceValue) with string arguments:
\* every non-overlapping occurrence, left to right, each replaced by the
\* substitution computed against the original string.
RECURSIVE replaceAllFrom(_, _, _, _)
replaceAllFrom(s, searchValue, replaceValue, from) ==
    LET i == indexOf(s, searchValue, from)
    IN  IF i = 0 THEN SubSeq(s, from, Len(s))
        ELSE SubSeq(s, from, i - 1)
             \o getSubstitution(searchValue, SubSeq(s, 1, i - 1),
                                SubSeq(s, i + Len(searchValue), Len(s)), replaceValue)
             \o replaceAllFrom(s, searchValue, replaceValue, i + Len(searchValue))

replaceAll(s, searchValue, replaceValue) == replaceAllFrom(s, searchValue, replaceValue, 1)

\* replaceAll(c, d) for single fragments c, d with no "$" in d.
replaceAllChar(s, c, d) == [ i \in 1..Len(s) |-> IF s[i] = c THEN d ELSE s[i] ]

(***************************************************************************)
(* Node's path module (posix) and Obsidian's normalizePath.                *)
(***************************************************************************)
Dot == << "." >>
DotDot == << ".", "." >>

\* normalizeString of path.normalize: "." and empty segments dropped, ".."
\* removes the segment before it (kept when nothing is left and the path is
\* relative).
RECURSIVE normalizeSegments(_, _, _)
normalizeSegments(segs, allowAboveRoot, acc) ==
    IF Len(segs) = 0 THEN acc
    ELSE LET seg == Head(segs)
             rest == Tail(segs)
         IN  IF seg = << >> \/ seg = Dot
             THEN normalizeSegments(rest, allowAboveRoot, acc)
             ELSE IF seg = DotDot
             THEN IF Len(acc) > 0 /\ acc[Len(acc)] # DotDot
                  THEN normalizeSegments(rest, allowAboveRoot, SubSeq(acc, 1, Len(acc) - 1))
                  ELSE IF allowAboveRoot
                  THEN normalizeSegments(rest, allowAboveRoot, Append(acc, seg))
                  ELSE normalizeSegments(rest, allowAboveRoot, acc)
             ELSE normalizeSegments(rest, allowAboveRoot, Append(acc, seg))

\* path.normalize after normalizeString: "." for an empty relative result, the
\* trailing separator kept, the root put back.
normalizedResult(body, isAbsolute, trailingSeparator) ==
    IF Len(body) = 0
    THEN IF isAbsolute THEN << "/" >>
         ELSE IF trailingSeparator THEN << ".", "/" >> ELSE Dot
    ELSE IF trailingSeparator
    THEN IF isAbsolute THEN << "/" >> \o body \o << "/" >> ELSE body \o << "/" >>
    ELSE IF isAbsolute THEN << "/" >> \o body ELSE body

pathNormalize(p) ==
    IF Len(p) = 0 THEN Dot
    ELSE normalizedResult(
             joinWith(normalizeSegments(split(p, "/"), p[1] # "/", << >>), "/"),
             p[1] = "/", p[Len(p)] = "/")

pathJoin(a, b) ==
    LET joined == IF Len(a) = 0 THEN b
                  ELSE IF Len(b) = 0 THEN a
                  ELSE a \o << "/" >> \o b
    IN  IF Len(joined) = 0 THEN Dot ELSE pathNormalize(joined)

\* obsidian.normalizePath: runs of slashes collapsed, leading and trailing
\* slashes removed, "/" for the empty result.
normalizePath(p) ==
    LET segs == SelectSeq(split(p, "/"), LAMBDA seg : seg # << >>)
        out == joinWith(segs, "/")
    IN  IF Len(out) = 0 THEN << "/" >> ELSE out

(***************************************************************************)
(* ImageTagProcessor.                                                      *)
(***************************************************************************)
VideoExtensions ==
    { "mp4", "mov", "m4v", "webm", "ogg", "ogv", "mkv", "avi", "mpeg", "mpg",
      "mpe", "m2v", "3gp", "3g2" }

ImageExtensions ==
    { "png", "jpg", "jpeg", "gif", "svg", "webp", "bmp", "tiff", "tif" }

\* String.prototype.toLowerCase on one fragment.
toLowerCase(c) ==
    CASE c = "MP4" -> "mp4"
      [] c = "PNG" -> "png"
      [] c = "Image" -> "image"
      [] OTHER -> c

\* decodeURIComponent: "%2E" is an escaped ".", a bare "%" is malformed.
decodeThrows(s) == \E i \in 1..Len(s) : s[i] = "%"

decodeURIComponent(s) == [ i \in 1..Len(s) |-> IF s[i] = "%2E" THEN "." ELSE s[i] ]

NoTarget == << >>

isVideoAsset(target) ==
    IF target = NoTarget THEN FALSE
    ELSE LET normalized == IF decodeThrows(target) THEN target
                           ELSE decodeURIComponent(target)
         IN  \E i \in 1..(Len(normalized) - 1) :
                /\ normalized[i] = "."
                /\ toLowerCase(normalized[i + 1]) \in VideoExtensions
                /\ (i + 1 = Len(normalized) \/ normalized[i + 2] \in { "?", "#" })

\* One match of /!\[([^\]]*)\]\(([^)]+)\)/ starting exactly at position p.
mdMatchAt(content, p) ==
    IF ~(p + 1 <= Len(content) /\ content[p] = "!" /\ content[p + 1] = "[")
    THEN [ found |-> FALSE ]
    ELSE LET rb == firstAt(content, "]", p + 2)
         IN  IF rb = 0 \/ rb + 1 > Len(content) \/ content[rb + 1] # "("
             THEN [ found |-> FALSE ]
             ELSE LET rp == firstAt(content, ")", rb + 2)
                  IN  IF rp = 0 \/ rp = rb + 2
                      THEN [ found |-> FALSE ]
                      ELSE [ found |-> TRUE,
                             tag |-> [ originalText |-> SubSeq(content, p, rp),
                                       altText |-> SubSeq(content, p + 2, rb - 1),
                                       imagePath |-> SubSeq(content, rb + 2, rp - 1),
                                       start |-> p - 1,
                                       end |-> rp ] ]

\* One match of /!\[\[([^\]]+)\]\]/ starting exactly at position p.
wikiMatchAt(content, p) ==
    IF ~(p + 2 <= Len(content) /\ content[p] = "!" /\ content[p + 1] = "["
            /\ content[p + 2] = "[")
    THEN [ found |-> FALSE ]
    ELSE LET rb == firstAt(content, "]", p + 3)
         IN  IF rb = 0 \/ rb = p + 3 \/ rb + 1 > Len(content) \/ content[rb + 1] # "]"
             THEN [ found |-> FALSE ]
             ELSE [ found |-> TRUE,
                    tag |-> [ originalText |-> SubSeq(content, p, rb + 1),
                              altText |-> << >>,
                              imagePath |-> SubSeq(content, p + 3, rb - 1),
                              start |-> p - 1,
                              end |-> rb + 1 ] ]

\* The exec loop of a global regular expression: leftmost match at or after
\* lastIndex, then on from the end of that match.
RECURSIVE mdMatchesFrom(_, _)
mdMatchesFrom(content, p) ==
    IF p > Len(content) THEN << >>
    ELSE LET m == mdMatchAt(content, p)
         IN  IF m.found THEN << m.tag >> \o mdMatchesFrom(content, m.tag.end + 1)
             ELSE mdMatchesFrom(content, p + 1)

RECURSIVE wikiMatchesFrom(_, _)
wikiMatchesFrom(content, p) ==
    IF p > Len(content) THEN << >>
    ELSE LET m == wikiMatchAt(content, p)
         IN  IF m.found THEN << m.tag >> \o wikiMatchesFrom(content, m.tag.end + 1)
             ELSE wikiMatchesFrom(content, p + 1)

extractImageTags(content) == mdMatchesFrom(content, 1) \o wikiMatchesFrom(content, 1)

isLocalImage(imagePath) ==
    /\ ~startsWith(imagePath, << "http://" >>)
    /\ ~startsWith(imagePath, << "https://" >>)
    /\ ~startsWith(imagePath, << "data:" >>)

\* resolveImagePath(imageName, app): activeParent is
\* app.workspace.getActiveFile().parent.path, or NoPath when there is no active
\* file.  threw = the 'No active file found' error.
NoPath == << "<none>" >>

\* The second half of resolveImagePath: a pathName starting with "./" or "../"
\* is joined to the active file's folder.
resolveRelative(pathName, name, activeParent) ==
    IF startsWith(pathName, << ".", "/" >>) \/ startsWith(pathName, << ".", ".", "/" >>)
    THEN IF activeParent = NoPath
         THEN [ threw |-> TRUE, resolvedPath |-> << >>, name |-> name ]
         ELSE [ threw |-> FALSE,
                resolvedPath |-> pathNormalize(pathJoin(activeParent, pathName)),
                name |-> name ]
    ELSE [ threw |-> FALSE, resolvedPath |-> pathName, name |-> name ]

resolveImagePath(imageName, attachmentFolder, activeParent) ==
    IF firstAt(imageName, "/", 1) = 0
    THEN resolveRelative(
             IF startsWith(attachmentFolder, Dot)
             THEN << ".", "/" >> \o pathJoin(attachmentFolder, imageName)
             ELSE pathJoin(attachmentFolder, imageName),
             imageName, activeParent)
    ELSE resolveRelative(
             imageName,
             SubSeq(imageName, lastIndexOf(imageName, "/") + 1, Len(imageName)),
             activeParent)

(***************************************************************************)
(* The vault: two markdown documents and the media files next to them.     *)
(***************************************************************************)
NoFile == "NoFile"
Documents == << "D1", "D2" >>     \* app.vault.getMarkdownFiles(), in vault order

\* TFile.parent.path of a document: D1 is notes/a.md, D2 is b.md in the root.
docParent(d) == IF d = "D1" THEN << "notes" >> ELSE << "/" >>

\* app.workspace.getActiveFile().parent.path for the note f.
parentOf(f) == IF f = NoFile THEN NoPath ELSE docParent(f)

\* What getActiveFile() can return when a continuation runs: while a command
\* is suspended the user may open another note or close them all.
ActiveChoices == { "D1", "D2", NoFile }

\* TFile.name and TFile.extension of a vault path.
fileName(path) == SubSeq(path, lastIndexOf(path, "/") + 1, Len(path))

fileExtension(name) ==
    IF lastIndexOf(name, ".") = 0 THEN << >>
    ELSE SubSeq(name, lastIndexOf(name, ".") + 1, Len(name))

NoTFile == << >>

\* Array.prototype.find on the vault's file list.
firstFileNamed(files, name) ==
    LET hits == { i \in 1..Len(files) : fileName(files[i]) = name }
    IN  IF hits = {} THEN NoTFile
        ELSE files[CHOOSE i \in hits : \A j \in hits : i <= j]

\* app.vault.getAbstractFileByPath(path).
getAbstractFileByPath(path) ==
    IF \E i \in 1..Len(vaultFiles) : vaultFiles[i] = path THEN path ELSE NoTFile

\* app.metadataCache.getFirstLinkpathDest(linkpath, sourcePath): the host's
\* index, when built, resolves a link to the file carrying its base name.
getFirstLinkpathDest(linkpath) ==
    IF linkIndex THEN firstFileNamed(vaultFiles, fileName(linkpath)) ELSE NoTFile

\* The three lookups of uploadLocalImagesInContent for one local tag, in order;
\* steps = how many of them ran.
lookupFile(imagePath, normalizedPath) ==
    LET byPath == getAbstractFileByPath(normalizedPath)
        byLink == getFirstLinkpathDest(imagePath)
        byName == firstFileNamed(vaultFiles, split(imagePath, "/")[Len(split(imagePath, "/"))])
    IN  IF byPath # NoTFile THEN [ file |-> byPath, steps |-> 1 ]
        ELSE IF byLink # NoTFile THEN [ file |-> byLink, steps |-> 2 ]
        ELSE [ file |-> byName, steps |-> 3 ]

\* The single lookup of src/main.ts publishPageToR2.
lookupFileLegacy(imagePath, normalizedPath) ==
    [ file |-> getAbstractFileByPath(normalizedPath), steps |-> 1 ]

(***************************************************************************)
(* Building the replacement text of one (originalText, newUrl) pair.       *)
(***************************************************************************)
\* fileName of the replacement loop: the wiki target, or group 2 of the
\* markdown pattern matched against originalText.
replacementFileName(originalText) ==
    IF startsWith(originalText, << "!", "[", "[" >>) /\ endsWith(originalText, << "]", "]" >>)
    THEN SubSeq(originalText, 4, Len(originalText) - 2)
    ELSE LET ms == mdMatchesFrom(originalText, 1)
         IN  IF Len(ms) > 0 THEN ms[1].imagePath ELSE << >>

\* .replace(/\.(png|jpg|jpeg|gif|svg|webp|bmp|tiff|tif)$/i, '')
stripImageExtension(name) ==
    IF Len(name) >= 2 /\ name[Len(name) - 1] = "."
          /\ toLowerCase(name[Len(name)]) \in ImageExtensions
    THEN SubSeq(name, 1, Len(name) - 2)
    ELSE name

altTextFor(name, useImageNameAsAltText) ==
    IF useImageNameAsAltText /\ Len(name) > 0
    THEN replaceAllChar(replaceAllChar(stripImageExtension(name), "-", " "), "_", " ")
    ELSE << >>

\* newImageTag for a pair whose fileName is name.
newImageTag(name, newUrl, useImageNameAsAltText) ==
    IF isVideoAsset(name) \/ isVideoAsset(newUrl)
    THEN << "<video controls src=\"" >> \o newUrl \o << "\"></video>" >>
    ELSE << "!", "[" >> \o altTextFor(name, useImageNameAsAltText)
         \o << "]", "(" >> \o newUrl \o << ")" >>

newImageTagFor(replacement, useImageNameAsAltText) ==
    newImageTag(replacementFileName(replacement.originalText), replacement.newUrl,
                useImageNameAsAltText)

\* The loop that applies the replacement plan, pair after pair.
RECURSIVE applyReplacements(_, _, _)
applyReplacements(updatedContent, replacements, useImageNameAsAltText) ==
    IF Len(replacements) = 0 THEN updatedContent
    ELSE applyReplacements(
             replaceAll(updatedContent, replacements[1].originalText,
                        newImageTagFor(replacements[1], useImageNameAsAltText)),
             Tail(replacements), useImageNameAsAltText)

(***************************************************************************)
(* Settings and the uploader instance.                                     *)
(***************************************************************************)
\* JavaScript truthiness of a settings string.
truthy(str) == str # ""

allConfigured(cfg) ==
    /\ truthy(cfg.accessKeyId)
    /\ truthy(cfg.secretAccessKey)
    /\ truthy(cfg.endpoint)
    /\ truthy(cfg.bucketName)

NoUploader == [ present |-> FALSE, accessKeyId |-> "", secretAccessKey |-> "",
                endpoint |-> "", bucketName |-> "" ]

\* setupR2Uploader(): the value this.r2Uploader is assigned.
setupR2Uploader(cfg) ==
    IF allConfigured(cfg)
    THEN [ present |-> TRUE, accessKeyId |-> cfg.accessKeyId,
           secretAccessKey |-> cfg.secretAccessKey, endpoint |-> cfg.endpoint,
           bucketName |-> cfg.bucketName ]
    ELSE NoUploader

\* The URL the n-th upload of a run resolves to: a fresh key carrying the
\* extension of the uploaded file's name (originalName.split('.').pop() || 'png').
UploadKeys == << "k1", "k2", "k3", "k4", "k5", "k6", "k7", "k8", "k9" >>

uploadUrl(n, name) ==
    LET pieces == split(name, ".")
        ext == IF Len(pieces[Len(pieces)]) = 0 THEN << "png" >> ELSE pieces[Len(pieces)]
    IN  << "https://", "cdn", "/", UploadKeys[n], "." >> \o ext

\* extensionMimeMap and mimeTypeFromExtension: the declared type of the File
\* built from a vault file, as << "video/", subtype >>.
OctetStream == << "application/", "octet-stream" >>

extensionMimeMap(lower) ==
    CASE lower \in { "png", "gif", "webp", "bmp", "tiff", "avif", "heic", "heif" } ->
             << "image/", lower >>
      [] lower \in { "jpg", "jpeg" } -> << "image/", "jpeg" >>
      [] lower = "svg" -> << "image/", "svg+xml" >>
      [] lower = "tif" -> << "image/", "tiff" >>
      [] lower \in { "mp4", "webm", "ogg" } -> << "video/", lower >>
      [] lower = "mov" -> << "video/", "quicktime" >>
      [] lower = "m4v" -> << "video/", "x-m4v" >>
      [] lower = "ogv" -> << "video/", "ogg" >>
      [] lower = "mkv" -> << "video/", "x-matroska" >>
      [] lower = "avi" -> << "video/", "x-msvideo" >>
      [] lower \in { "mpg", "mpeg", "mpe", "m2v" } -> << "video/", "mpeg" >>
      [] lower = "3gp" -> << "video/", "3gpp" >>
      [] lower = "3g2" -> << "video/", "3gpp2" >>
      [] OTHER -> OctetStream

mimeTypeFromExtension(extension) ==
    IF Len(extension) = 0 THEN OctetStream
    ELSE extensionMimeMap(toLowerCase(extension[Len(extension)]))

(***************************************************************************)
(* Publishing.  m = [pc, job, ret, log, docText] is the part of the state  *)
(* the publish commands change; each operator below is the code that runs  *)
(* between two suspension points.                                          *)
(***************************************************************************)
\* What the PUT of one upload ended with: an HTTP status, or a transport-level
\* error (no response at all).
NoStatus == -1
TransportError == 0
Responses == { TransportError, 199, 200, 300 }

\* response.ok of fetch, xhr.status >= 200 && xhr.status < 300 of the XHR
\* uploader; a transport error rejects before any status is seen.
putSucceeded(response) ==
    response # TransportError /\ response >= 200 /\ response < 300

\* const maxSize = 50 * 1024 * 1024.
maxSize == 50 * 1024 * 1024

\* res.headers['content-length']: undefined, or the header's text, here a run
\* of digits given by the number parseInt makes of it.
NoHeader == [ present |-> FALSE, digits |-> 0 ]

header(n) == [ present |-> TRUE, digits |-> n ]

parseInt(text) == text.digits

\* What a server may answer to the GET: the status, the content-type and
\* content-length headers, and the lengths of the chunks its 'data' events
\* would deliver one after the other.
incomingMessage(statusCode, contentType, contentLength, chunks) ==
    [ statusCode |-> statusCode, contentType |-> contentType,
      contentLength |-> contentLength, chunks |-> chunks ]

DownloadResponses ==
    { incomingMessage(404, << "text/", "html" >>, NoHeader, << 1 >>),
      incomingMessage(200, << "text/", "html" >>, NoHeader, << 1 >>),
      incomingMessage(200, << "video/", "mp4" >>, NoHeader, << 1 >>),
      incomingMessage(200, << "image/", "png" >>, NoHeader, << 1 >>),
      incomingMessage(200, << "image/", "png" >>, header(maxSize), << maxSize >>),
      incomingMessage(200, << "image/", "png" >>, header(maxSize + 1), << 1 >>),
      incomingMessage(200, << "image/", "png" >>, NoHeader, << maxSize, 1 >>),
      incomingMessage(200, << "image/", "png" >>, header(1), << maxSize + 1, 1 >>) }

\* The promise of downloadExternalImage once it has settled: rejected or
\* resolved with a File, after so many 'data' events.
downloadRejected(reason, consumed) ==
    [ rejected |-> TRUE, reason |-> reason, consumed |-> consumed ]

downloadResolved(consumed) ==
    [ rejected |-> FALSE, reason |-> "none", consumed |-> consumed ]

\* res.on('data'): the chunk is pushed, the lengths are summed, and an
\* excess destroys the request and rejects; res.on('end') resolves.
RECURSIVE receiveChunks(_, _, _)
receiveChunks(chunks, consumed, totalSize) ==
    IF consumed = Len(chunks) THEN downloadResolved(consumed)
    ELSE IF totalSize + chunks[consumed + 1] > maxSize
    THEN downloadRejected("tooLarge", consumed + 1)
    ELSE receiveChunks(chunks, consumed + 1, totalSize + chunks[consumed + 1])

\* A download that checks the status and the content type only.
downloadExternalImageUnlimited(res) ==
    IF res.statusCode < 200 \/ res.statusCode >= 300 THEN downloadRejected("http", 0)
    ELSE IF Head(res.contentType) \notin { "image/", "video/" }
    THEN downloadRejected("notMedia", 0)
    ELSE downloadResolved(Len(res.chunks))

\* The response callback of downloadExternalImage and the events after it.
downloadExternalImage(res) ==
    IF res.statusCode < 200 \/ res.statusCode >= 300 THEN downloadRejected("http", 0)
    ELSE IF Head(res.contentType) \notin { "image/", "video/" }
    THEN downloadRejected("notMedia", 0)
    ELSE IF res.contentLength.present /\ parseInt(res.contentLength) > maxSize
    THEN downloadRejected("tooLarge", 0)
    ELSE receiveChunks(res.chunks, 0, 0)

NoDownload == [ requested |-> FALSE ]

EmptyJob ==
    [ mode |-> "none", files |-> << >>, fileContext |-> NoFile, content |-> << >>,
      localImageTags |-> << >>, externalImageTags |-> << >>, phase |-> "local",
      i |-> 0, file |-> NoTFile, steps |-> 0, resolvedPath |-> << >>,
      uploading |-> << >>, mimeType |-> << >>, status |-> NoStatus,
      download |-> NoDownload, successCount |-> 0, errorCount |-> 0, replacements |-> << >>,
      outcomes |-> << >>, totalSuccess |-> 0, totalError |-> 0, targets |-> << >> ]

EmptyLog == [ reads |-> << >>, downloads |-> << >>, uploads |-> << >>, notices |-> << >>,
              written |-> << >>, edits |-> << >>, settled |-> 0,
              vaultReads |-> << >>, finished |-> << >> ]

NoRet == [ valid |-> FALSE, mode |-> "none", fileContext |-> NoFile, content |-> << >>,
           localImageTags |-> << >>, externalImageTags |-> << >>,
           updatedContent |-> << >>, successCount |-> 0, errorCount |-> 0,
           replacements |-> << >>, outcomes |-> << >>, threw |-> FALSE ]

machine == [ pc |-> pc, job |-> job, ret |-> ret, log |-> log, docText |-> docText ]

notice(m, kind) == [ m EXCEPT !.log.notices = Append(@, kind) ]

\* An awaited readBinary, download or upload has settled and the command runs on.
settle(m) == [ m EXCEPT !.log.settled = @ + 1 ]

localImageTagsOf(imageTags) ==
    SelectSeq(imageTags, LAMBDA tag : isLocalImage(tag.imagePath))

\* The external references selected whatever the setting says.
externalImageTagsAlways(imageTags, downloadExternalImages) ==
    SelectSeq(imageTags, LAMBDA tag : ~isLocalImage(tag.imagePath))

externalImageTagsOf(imageTags, downloadExternalImages) ==
    IF downloadExternalImages
    THEN SelectSeq(imageTags, LAMBDA tag : ~isLocalImage(tag.imagePath))
    ELSE << >>

currentTag(j) ==
    IF j.phase = "local" THEN j.localImageTags[j.i] ELSE j.externalImageTags[j.i]

\* One reference has been dealt with: its outcome is recorded and the loop
\* variable moves on.
outcomeOf(j, result) ==
    [ tag |-> currentTag(j), result |-> result, steps |-> j.steps,
      resolvedPath |-> j.resolvedPath,
      file |-> j.file, mimeType |-> j.mimeType, status |-> j.status,
      download |-> j.download ]

\* A failure branch that leaves errorCount as it is.
referenceFailedUncounted(m, result) ==
    [ m EXCEPT !.job.outcomes = Append(@, outcomeOf(m.job, result)),
               !.job.i = @ + 1 ]

\* errorCount++ for the current reference (a continue, an else branch or a
\* catch block of the loop).
referenceFailed(m, result) ==
    [ m EXCEPT !.job.errorCount = @ + 1,
               !.job.outcomes = Append(@, outcomeOf(m.job, result)),
               !.job.i = @ + 1 ]

\* replacements.push(...); successCount++.
referenceUploaded(m, newUrl) ==
    [ m EXCEPT !.job.successCount = @ + 1,
               !.job.replacements =
                   Append(@, [ originalText |-> currentTag(m.job).originalText,
                               newUrl |-> newUrl ]),
               !.job.outcomes = Append(@, outcomeOf(m.job, "uploaded")),
               !.job.i = @ + 1 ]

\* What one pass of the for-of over the target files leaves behind: the
\* document, whether it had to be written, and how many of its references the
\* loops went through.
endOfBody(j) ==
    [ doc |-> j.fileContext, changed |-> j.successCount > 0,
      processed |-> Len(j.outcomes),
      references |-> Len(j.localImageTags) + Len(j.externalImageTags) ]

\* The body of a for-of over the target files ended: totals, then the next
\* file's vault.read or the closing notice.
afterFile(m) ==
    LET m1 == [ m EXCEPT !.job.totalSuccess = @ + m.job.successCount,
                         !.job.totalError = @ + m.job.errorCount,
                         !.log.finished = Append(@, endOfBody(m.job)) ]
    IN  IF Len(m1.job.files) = 0
        THEN [ notice(m1, "finishedUpload") EXCEPT !.pc = "done" ]
        ELSE [ m1 EXCEPT !.pc = "vaultRead",
                         !.job.fileContext = Head(m1.job.files),
                         !.job.files = Tail(m1.job.files),
                         !.log.vaultReads = Append(@, Head(m1.job.files)) ]

\* editor.setValue(updatedContent) / the effect of vault.modify(file, updatedContent).
writeBack(m, doc, text) ==
    [ m EXCEPT !.docText[doc] = text, !.log.written = Append(@, doc) ]

\* The calling command writing the result back whatever the counts are.
callerContinuesAlwaysWrites(m) ==
    CASE m.job.mode \in { "page", "srcMain" } ->
           [ notice(writeBack(m, m.job.fileContext, m.ret.updatedContent),
                    "successfullyUploaded") EXCEPT !.pc = "done" ]
      [] OTHER -> [ m EXCEPT !.pc = "modify" ]

\* The calling command with a vault.modify that is not awaited (and has not
\* taken effect when the loop goes on).
callerContinuesUnawaited(m) ==
    CASE m.job.mode = "page" ->
           IF m.ret.successCount > 0
           THEN [ notice(writeBack(m, m.job.fileContext, m.ret.updatedContent),
                         "successfullyUploaded") EXCEPT !.pc = "done" ]
           ELSE IF m.ret.errorCount > 0
           THEN [ notice(m, "failedToUploadAny") EXCEPT !.pc = "done" ]
           ELSE [ m EXCEPT !.pc = "done" ]
      [] m.job.mode = "srcMain" ->
           IF m.ret.successCount > 0
           THEN [ notice(writeBack(m, m.job.fileContext, m.ret.updatedContent),
                         "successfullyUploaded") EXCEPT !.pc = "done" ]
           ELSE [ notice(m, "failedToUploadAny") EXCEPT !.pc = "done" ]
      [] OTHER -> afterFile(m)

\* The code of the calling command after its
\* await this.uploadLocalImagesInContent(...), up to its next suspension point.
callerContinues(m) ==
    CASE m.job.mode = "page" ->
           IF m.ret.successCount > 0
           THEN [ notice(writeBack(m, m.job.fileContext, m.ret.updatedContent),
                         "successfullyUploaded") EXCEPT !.pc = "done" ]
           ELSE IF m.ret.errorCount > 0
           THEN [ notice(m, "failedToUploadAny") EXCEPT !.pc = "done" ]
           ELSE [ m EXCEPT !.pc = "done" ]
      [] m.job.mode = "srcMain" ->
           IF m.ret.successCount > 0
           THEN [ notice(writeBack(m, m.job.fileContext, m.ret.updatedContent),
                         "successfullyUploaded") EXCEPT !.pc = "done" ]
           ELSE [ notice(m, "failedToUploadAny") EXCEPT !.pc = "done" ]
      [] OTHER ->
           IF m.ret.successCount > 0
           THEN [ m EXCEPT !.pc = "modify" ]
           ELSE afterFile(m)

\* uploadLocalImagesInContent returns { updatedContent, successCount, errorCount }
\* and its caller goes on.
returnResult(m, updatedContent) ==
    callerContinues(
        [ m EXCEPT !.ret = [ valid |-> TRUE, mode |-> m.job.mode,
                             fileContext |-> m.job.fileContext,
                             content |-> m.job.content,
                             localImageTags |-> m.job.localImageTags,
                             externalImageTags |-> m.job.externalImageTags,
                             updatedContent |-> updatedContent,
                             successCount |-> m.job.successCount,
                             errorCount |-> m.job.errorCount,
                             replacements |-> m.job.replacements,
                             outcomes |-> m.job.outcomes, threw |-> FALSE ] ])

\* An exception leaves uploadLocalImagesInContent: no result is returned and the
\* calling command is abandoned.
throwPastBoundary(m) ==
    [ m EXCEPT !.ret = [ NoRet EXCEPT !.valid = TRUE, !.threw = TRUE,
                                      !.mode = m.job.mode,
                                      !.fileContext = m.job.fileContext,
                                      !.content = m.job.content ],
               !.pc = "done" ]

\* A loop body without its catch block: the exception leaves the call.
catchReferenceRethrows(m, kind, result) == throwPastBoundary(notice(m, kind))

\* The catch block of the local loop (lines 1108-1113) and of the external
\* loop (lines 1138-1143).
catchReference(m, kind, result) == referenceFailed(notice(m, kind), result)

\* The code after both loops: apply the plan, return.
applyAndReturn(m) ==
    returnResult(m, applyReplacements(m.job.content, m.job.replacements,
                                      settings.useImageNameAsAltText))

\* Both loops have run (src/main.ts has the local loop only).
loopsDone(j) ==
    \/ j.phase = "local" /\ j.mode = "srcMain" /\ j.i > Len(j.localImageTags)
    \/ j.phase = "external" /\ j.i > Len(j.externalImageTags)

\* The loop variables of one iteration before anything is known about it.
resetReference(m) ==
    [ m EXCEPT !.job.steps = 0, !.job.resolvedPath = << >>, !.job.file = NoTFile,
               !.job.mimeType = << >>, !.job.status = NoStatus,
               !.job.download = NoDownload ]

\* The lookups src/main.ts and the plugin's main file make for one local tag.
lookupsFor(mode, imagePath, normalizedPath) ==
    IF mode = "srcMain"
    THEN lookupFileLegacy(imagePath, normalizedPath)
    ELSE lookupFile(imagePath, normalizedPath)

recordLookup(m, found, normalizedPath) ==
    [ m EXCEPT !.job.steps = found.steps, !.job.resolvedPath = normalizedPath,
               !.job.file = found.file ]

\* The two loops from the current reference up to the next await.
RECURSIVE continueLoops(_, _)

\* Lines 1076-1086: no file is a counted failure and the loop goes on; a file
\* is read.
afterLookup(m, found, active) ==
    IF found.file = NoTFile
    THEN continueLoops(referenceFailed(notice(m, "fileNotFound"), "notFound"), active)
    ELSE [ m EXCEPT !.pc = "readBinary", !.log.reads = Append(@, m.job.fileContext) ]

\* Lines 1051-1075: normalizePath, then the lookups.
afterResolve(m, imagePath, normalizedPath, active) ==
    afterLookup(recordLookup(m, lookupsFor(m.job.mode, imagePath, normalizedPath),
                             normalizedPath),
                lookupsFor(m.job.mode, imagePath, normalizedPath), active)

\* Lines 1046-1050 and the catch block for a throwing resolveImagePath.
localReference(m, imagePath, r, active) ==
    IF r.threw
    THEN continueLoops(catchReference(m, "failedToUpload", "resolveThrew"), active)
    ELSE afterResolve(m, imagePath, normalizePath(r.resolvedPath), active)

continueLoops(m, active) ==
    IF m.ret.valid /\ m.ret.threw THEN m       \* an exception ended the call
    ELSE IF loopsDone(m.job) THEN applyAndReturn(m)
    ELSE IF m.job.phase = "local"
    THEN IF m.job.i > Len(m.job.localImageTags)
         THEN continueLoops([ m EXCEPT !.job.phase = "external", !.job.i = 1 ], active)
         ELSE localReference(
                  resetReference(m), m.job.localImageTags[m.job.i].imagePath,
                  resolveImagePath(m.job.localImageTags[m.job.i].imagePath,
                                   attachmentFolderPath, parentOf(active)),
                  active)
    ELSE [ notice(m, "downloadExternalImage") EXCEPT
               !.pc = "download", !.log.downloads = Append(@, m.job.fileContext),
               !.job.steps = 0, !.job.resolvedPath = << >>, !.job.file = NoTFile,
               !.job.mimeType = << >>, !.job.status = NoStatus,
               !.job.download = NoDownload ]

\* uploadImage(file) whose promise the loop does not await: the upload is
\* started, taken as done, and the loop goes on to the next reference.
uploadImageNotAwaited(m, name, active) ==
    IF ~r2Uploader.present
    THEN continueLoops(referenceFailed(notice(m, "notConfigured"), "notConfigured"), active)
    ELSE continueLoops(
             referenceUploaded(
                 [ notice(m, "uploading") EXCEPT
                       !.job.uploading = name,
                       !.log.uploads = Append(@, [ name |-> name, doc |-> m.job.fileContext,
                                                   originalText |->
                                                       currentTag(m.job).originalText ]) ],
                 uploadUrl(Len(m.log.uploads) + 1, name)),
             active)

\* uploadImage(file) up to its await: the 'not configured' return, which the
\* loop counts as a failure before it goes on, or the start of
\* r2Uploader.upload.
uploadImage(m, name, active) ==
    IF ~r2Uploader.present
    THEN continueLoops(referenceFailed(notice(m, "notConfigured"), "notConfigured"), active)
    ELSE [ notice(m, "uploading") EXCEPT
               !.pc = "upload", !.job.uploading = name,
               !.log.uploads = Append(@, [ name |-> name, doc |-> m.job.fileContext,
                                           originalText |-> currentTag(m.job).originalText ]) ]

\* Lines 1010-1013 and 1020-1030: the loop variables of a fresh call.
beginCall(m, mode, files, fileContext, content, locals, externals) ==
    [ m EXCEPT !.job = [ m.job EXCEPT
          !.mode = mode, !.files = files, !.fileContext = fileContext,
          !.content = content, !.localImageTags = locals,
          !.externalImageTags = externals, !.phase = "local", !.i = 1,
          !.successCount = 0, !.errorCount = 0, !.replacements = << >>,
          !.outcomes = << >> ] ]

\* An early return: the notice, the unchanged content and zero counts
\* (src/main.ts returns from the command itself).
nothingToUpload(m, kind) ==
    IF m.job.mode = "srcMain"
    THEN [ notice(m, kind) EXCEPT !.pc = "done" ]
    ELSE returnResult(notice(m, kind), m.job.content)

\* Lines 1015-1018 and 1031-1043: the early returns, or the loops.
startLoops(m, tagCount, active) ==
    IF tagCount = 0 THEN nothingToUpload(m, "noImagesFound")
    ELSE IF Len(m.job.localImageTags) = 0 /\ Len(m.job.externalImageTags) = 0
    THEN nothingToUpload(m, IF m.job.mode = "srcMain" THEN "noLocalImagesFound"
                            ELSE "noImagesToUpload")
    ELSE continueLoops(notice(m, "foundImages"), active)

selectTags(m, mode, files, fileContext, content, imageTags, active) ==
    startLoops(
        beginCall(m, mode, files, fileContext, content, localImageTagsOf(imageTags),
                  IF mode = "srcMain" THEN << >>
                  ELSE externalImageTagsOf(imageTags, settings.downloadExternalImages)),
        Len(imageTags), active)

\* uploadLocalImagesInContent(content, fileContext) up to its first await.
uploadLocalImagesInContent(m, mode, files, fileContext, content, active) ==
    selectTags(m, mode, files, fileContext, content, extractImageTags(content), active)

(***************************************************************************)
(* Inputs: document texts, vault layouts, settings.                        *)
(***************************************************************************)
SegBody == << "\n", "body" >>
SegMarkdown ==       \* ![a](./img/my-pic_1.png)
    << "!", "[", "a", "]", "(", ".", "/", "img", "/", "my", "-", "pic", "_", "1", ".", "png", ")" >>
SegWiki ==           \* ![[pic.png]]
    << "!", "[", "[", "pic", ".", "png", "]", "]" >>
SegRemote ==         \* ![r](https://host/x.png)
    << "!", "[", "r", "]", "(", "https://", "host", "/", "x", ".", "png", ")" >>
SegDollar ==         \* ![[a$&.png]]
    << "!", "[", "[", "a", "$", "&", ".", "png", "]", "]" >>
SegVideo ==          \* ![[clip.mp4]]
    << "!", "[", "[", "clip", ".", "mp4", "]", "]" >>

Segments == << SegBody, SegMarkdown, SegWiki, SegRemote, SegDollar, SegVideo >>

RECURSIVE concatSegments(_)
concatSegments(ix) ==
    IF Len(ix) = 0 THEN << >> ELSE Segments[Head(ix)] \o concatSegments(Tail(ix))

\* Every text made of at most MaxSegs segments drawn from the given ones, the
\* segments in the order of their numbers.
textsOver(choice) ==
    { concatSegments(ix) :
        ix \in { f \in UNION { [ 1..n -> choice ] : n \in 0..MaxSegs } :
                    \A i \in 1..(Len(f) - 1) : f[i] <= f[i + 1] } }

DocumentTexts == textsOver(1..Len(Segments))

\* b.md holds one relative reference.
OtherDocumentText == SegMarkdown \o SegBody

VaultExact ==        \* every referenced file where its reference resolves to
    << << "notes", "/", "img", "/", "my", "-", "pic", "_", "1", ".", "png" >>,
       << "img", "/", "my", "-", "pic", "_", "1", ".", "png" >>,
       << "pic", ".", "png" >>,
       << "a", "$", "&", ".", "png" >>,
       << "clip", ".", "mp4" >> >>

VaultElsewhere ==    \* the same files, all moved to another folder
    << << "other", "/", "my", "-", "pic", "_", "1", ".", "png" >>,
       << "other", "/", "pic", ".", "png" >>,
       << "other", "/", "a", "$", "&", ".", "png" >>,
       << "other", "/", "clip", ".", "mp4" >> >>

Environments ==
    { [ vaultFiles |-> VaultExact, linkIndex |-> TRUE, attachmentFolderPath |-> << "/" >> ],
      [ vaultFiles |-> VaultElsewhere, linkIndex |-> TRUE, attachmentFolderPath |-> << "/" >> ],
      [ vaultFiles |-> VaultElsewhere, linkIndex |-> FALSE, attachmentFolderPath |-> << ".", "/" >> ],
      [ vaultFiles |-> << >>, linkIndex |-> FALSE, attachmentFolderPath |-> << "/" >> ] }

Credentials ==
    { [ accessKeyId |-> a, secretAccessKey |-> a, endpoint |-> a, bucketName |-> a ]
        : a \in { "", "x" } }

settingsWith(cred, alt, dl, confirm) ==
    [ accessKeyId |-> cred.accessKeyId, secretAccessKey |-> cred.secretAccessKey,
      endpoint |-> cred.endpoint, bucketName |-> cred.bucketName,
      useImageNameAsAltText |-> alt, downloadExternalImages |-> dl,
      confirmBeforeUpload |-> confirm ]

\* The state after onload(): loadSettings(), then setupR2Uploader().
Init ==
    /\ \E cred \in Credentials, alt \in BOOLEAN, dl \in BOOLEAN :
          settings = settingsWith(cred, alt, dl, TRUE)
    /\ r2Uploader = setupR2Uploader(settings)
    /\ savesInFlight = 0
    /\ settingChanges = 0
    /\ settingsDirty = FALSE
    /\ \E env \in Environments :
          /\ vaultFiles = env.vaultFiles
          /\ linkIndex = env.linkIndex
          /\ attachmentFolderPath = env.attachmentFolderPath
    /\ \E text \in DocumentTexts :
          docText = [ d \in { "D1", "D2" } |-> IF d = "D1" THEN text ELSE OtherDocumentText ]
    /\ activeFile \in { "D1", "D2", NoFile }
    /\ pc = "idle"
    /\ job = EmptyJob
    /\ ret = NoRet
    /\ log = EmptyLog
    /\ editor = << >>
    /\ pasteOps = << >>
    /\ hostPastes = 0
    /\ instances = << >>
    /\ calls = << >>
    /\ applied = NotApplied

environment == << settings, r2Uploader, savesInFlight, settingChanges, settingsDirty, vaultFiles,
                  linkIndex, attachmentFolderPath >>

handlerVars == << editor, pasteOps, hostPastes >>

\* The publish commands' part of the state takes the values of m.
becomes(m) ==
    /\ pc' = m.pc
    /\ job' = m.job
    /\ ret' = m.ret
    /\ log' = m.log
    /\ docText' = m.docText

\* publishPageToR2() of the plugin's main file, up to its first await.
PublishPage ==
    /\ pc = "idle"
    /\ IF activeFile = NoFile
       THEN becomes([ notice(machine, "noActiveMarkdownView") EXCEPT !.pc = "done" ])
       ELSE becomes(uploadLocalImagesInContent(machine, "page", << >>, activeFile,
                                               docText[activeFile], activeFile))
    /\ UNCHANGED << uploaderVars, environment, activeFile, handlerVars >>

\* publishPageToR2() of src/main.ts, up to its first await.
PublishPageSrcMain ==
    /\ pc = "idle"
    /\ IF activeFile = NoFile
       THEN becomes([ notice(machine, "noActiveMarkdownView") EXCEPT !.pc = "done" ])
       ELSE becomes(uploadLocalImagesInContent(machine, "srcMain", << >>, activeFile,
                                               docText[activeFile], activeFile))
    /\ UNCHANGED << uploaderVars, environment, activeFile, handlerVars >>

\* A multi-file command found its target files: the first vault.read.
startFiles(m, mode, files) ==
    [ m EXCEPT !.pc = "vaultRead", !.job.mode = mode, !.job.targets = files,
               !.job.fileContext = Head(files), !.job.files = Tail(files),
               !.log.vaultReads = Append(@, Head(files)) ]

\* publishCurrentFolderToR2(), up to its first await.
PublishCurrentFolder ==
    /\ pc = "idle"
    /\ IF activeFile = NoFile
       THEN becomes([ notice(machine, "noActiveFile") EXCEPT !.pc = "done" ])
       ELSE LET targetFiles ==
                    SelectSeq(Documents, LAMBDA f : docParent(f) = docParent(activeFile))
            IN  becomes(startFiles(notice(machine, "startingUpload"), "folder", targetFiles))
    /\ UNCHANGED << uploaderVars, environment, activeFile, handlerVars >>

\* publishVaultToR2(), up to its first await.
PublishVault ==
    /\ pc = "idle"
    /\ becomes(startFiles(notice(machine, "startingUpload"), "vault", Documents))
    /\ UNCHANGED << uploaderVars, environment, activeFile, handlerVars >>

\* publishSelectedFilesToR2(files), up to its first await.
PublishSelectedFiles ==
    /\ pc = "idle"
    /\ \E files \in { << >>, << "D1" >>, << "D2" >>, << "D1", "D2" >> } :
          IF Len(files) = 0
          THEN becomes([ notice(machine, "noMarkdownFilesSelected") EXCEPT !.pc = "done" ])
          ELSE becomes(startFiles(notice(machine, "startingUpload"), "selected", files))
    /\ UNCHANGED << uploaderVars, environment, activeFile, handlerVars >>

\* await this.app.vault.read(file) resolved: the call of
\* uploadLocalImagesInContent(content, file) runs to its first await.
VaultReadResolved ==
    /\ pc = "vaultRead"
    /\ \E active \in ActiveChoices :
          becomes(uploadLocalImagesInContent(machine, job.mode, job.files, job.fileContext,
                                             docText[job.fileContext], active))
    /\ UNCHANGED << uploaderVars, environment, activeFile, handlerVars >>

\* await this.app.vault.readBinary(file) settled.
ReadBinarySettled ==
    /\ pc = "readBinary"
    /\ \E ok \in BOOLEAN, active \in ActiveChoices :
          IF ok
          THEN becomes(uploadImage(
                   [ settle(machine) EXCEPT !.job.mimeType =
                         mimeTypeFromExtension(fileExtension(fileName(job.file))) ],
                   fileName(job.file), active))
          ELSE becomes(continueLoops(
                   catchReference(settle(machine), "failedToUpload", "readError"),
                   active))
    /\ UNCHANGED << uploaderVars, environment, activeFile, handlerVars >>

\* The external loop after its await of downloadExternalImage: a File named
\* after the URL's last path segment goes to uploadImage, a rejection to the
\* catch block.
afterDownload(m, res, settled, active) ==
    IF settled.rejected
    THEN continueLoops(
             catchReference(
                 [ m EXCEPT !.job.download = [ requested |-> TRUE, response |-> res,
                                               settled |-> settled ] ],
                 "failedToDownloadUpload", "downloadError"),
             active)
    ELSE uploadImage(
             [ m EXCEPT !.job.mimeType = res.contentType,
                        !.job.download = [ requested |-> TRUE, response |-> res,
                                           settled |-> settled ] ],
             fileName(currentTag(m.job).imagePath), active)

\* await this.downloadExternalImage(url) settled.
DownloadSettled ==
    /\ pc = "download"
    /\ \E res \in DownloadResponses, active \in ActiveChoices :
          becomes(afterDownload(settle(machine), res, downloadExternalImage(res), active))
    /\ UNCHANGED << uploaderVars, environment, activeFile, handlerVars >>

\* await this.r2Uploader.upload(file, '') settled inside uploadImage: the URL
\* is returned, or the rejection is caught and null returned.
UploadSettled ==
    /\ pc = "upload"
    /\ \E response \in Responses, active \in ActiveChoices :
          becomes(continueLoops(
              IF putSucceeded(response)
              THEN referenceUploaded(
                       notice([ settle(machine) EXCEPT !.job.status = response ],
                              "uploaded"),
                       uploadUrl(Len(log.uploads), job.uploading))
              ELSE referenceFailed(
                       notice([ settle(machine) EXCEPT !.job.status = response ],
                              "uploadFailed"),
                       "uploadFailed"),
              active))
    /\ UNCHANGED << uploaderVars, environment, activeFile, handlerVars >>

\* await this.app.vault.modify(file, updatedContent) resolved.
VaultModifyResolved ==
    /\ pc = "modify"
    /\ becomes(afterFile(writeBack(machine, job.fileContext, ret.updatedContent)))
    /\ UNCHANGED << uploaderVars, environment, activeFile, handlerVars >>

Next ==
    \/ PublishPage
    \/ PublishPageSrcMain
    \/ PublishCurrentFolder
    \/ PublishVault
    \/ PublishSelectedFiles
    \/ VaultReadResolved
    \/ ReadBinarySettled
    \/ DownloadSettled
    \/ UploadSettled
    \/ VaultModifyResolved

Spec == Init /\ [][Next]_vars

(***************************************************************************)
(* Paste and drop handlers, the confirmation dialog, the settings tab.     *)
(***************************************************************************)
PasteIds == { "id1", "id2" }    \* values of generatePseudoRandomId()

progressTextFor(id) == << "!", "[", "Uploading file...", id, "]", "(", ")" >>

\* editor.replaceRange(text, at, at) / editor.replaceSelection(text) at offset at.
\* A position past the end of the document is clamped to the end.
insertAt(text, at, inserted) ==
    LET pos == IF at > Len(text) THEN Len(text) ELSE at
    IN  SubSeq(text, 1, pos) \o inserted \o SubSeq(text, pos + 1, Len(text))

replaceFirstOccurrence(text, searchText, replacement) ==
    LET index == indexOf(text, searchText, 1)
    IN  IF index = 0 THEN text
        ELSE SubSeq(text, 1, index - 1) \o replacement
             \o SubSeq(text, index + Len(searchText), Len(text))

\* embedMarkDownImage: the tag that takes the place of the placeholder.
embedTagFor(imageUrl, file) ==
    IF file.video \/ isVideoAsset(file.name) \/ isVideoAsset(imageUrl)
    THEN << "<video controls src=\"" >> \o imageUrl \o << "\"></video>" >>
    ELSE << "!", "[", "]", "(" >> \o imageUrl \o << ")" >>

failureComment == << "<!--Upload failed: Upload failed-->" >>

PastedFile == [ name |-> << "shot", ".", "png" >>, video |-> FALSE ]

\* The note the events of the model arrive in; editor is its buffer.
EventNote == "D1"

\* active is the note this.activeEditor gives the editor of.
h == [ editor |-> editor, pasteOps |-> pasteOps, hostPastes |-> hostPastes,
       log |-> log, active |-> activeFile ]

\* this.activeEditor.replaceSelection / replaceRange: the text goes into the
\* buffer of the note that is active now.
insertInActiveEditor(n, at, inserted) ==
    IF n.active = EventNote
    THEN [ n EXCEPT !.editor = insertAt(@, at, inserted) ]
    ELSE n

\* replaceFirstOccurrence(this.activeEditor, searchText, replacement): a note
\* other than the event's holds no placeholder of it and stays as it is.
replaceInActiveEditor(n, searchText, replacement) ==
    IF n.active = EventNote
    THEN [ n EXCEPT !.editor = replaceFirstOccurrence(@, searchText, replacement) ]
    ELSE n

\* Whether the placeholder of pasteId is in the buffer this.activeEditor gives.
placeholderInReach(n, id) ==
    n.active = EventNote /\ indexOf(n.editor, progressTextFor(id), 1) # 0

hBecomes(n) ==
    /\ editor' = n.editor
    /\ pasteOps' = n.pasteOps
    /\ hostPastes' = n.hostPastes
    /\ log' = n.log

hNotice(n, kind) == [ n EXCEPT !.log.notices = Append(@, kind) ]

\* The record of one invocation of a handler: what the event was, whether an
\* uploader was held when it arrived, and what the handler has done since.
newOp(kind, copy, files, cursor, present) ==
    [ kind |-> kind, copy |-> copy, entryUploader |-> present,
      pc |-> "done", files |-> files, cursor |-> cursor, uploads |-> << >>,
      notConfigured |-> 0, inserted |-> 0, started |-> 0, absentInserted |-> 0,
      confirmAtEntry |-> FALSE, answer |-> "none", saved |-> FALSE, fallbacks |-> 0 ]

\* clipboardManager.handlePaste(new PasteEventCopy(evt)): the host offers the
\* copy to the plugin's paste handler, which returns at its first line, and
\* goes on to paste the image as a local attachment.
handlePasteCopy(n, present) ==
    [ n EXCEPT !.hostPastes = @ + 1,
               !.pasteOps = Append(@, newOp("paste", TRUE, << >>, 0, present)) ]

\* The .catch of one rejected uploadFileAndEmbedR2Image: the paste handler
\* hands a copy of the event to the host, the drop handler shows a notice.
uploadRejected(n, o, present) ==
    IF n.pasteOps[o].kind = "paste"
    THEN handlePasteCopy([ n EXCEPT !.pasteOps[o].fallbacks = @ + 1 ], present)
    ELSE hNotice(n, "failedToUpload")

\* One call of uploadFileAndEmbedR2Image: its pasteId, how far it is, the note
\* its placeholder went into and whether its own placeholder was within reach of
\* replaceFirstOccurrence when it settled.
upload(id, status, note) ==
    [ id |-> id, status |-> status, note |-> note, found |-> FALSE ]

\* uploadFileAndEmbedR2Image(file, atPos) for file k of handler invocation o, up
\* to the await of uploadImage: the placeholder goes in, then uploadImage
\* either returns null at once ('not configured') or starts the upload.
beginUpload(n, o, k, id, present) ==
    LET op == n.pasteOps[o]
        placeholder == progressTextFor(id) \o << "\n" >>
        \* paste: replaceSelection at the editor's cursor (kept at the end of the
        \* text); drop: replaceRange at the position taken when the drop arrived.
        at == IF op.kind = "paste" THEN Len(n.editor) ELSE op.cursor
        n1 == [ insertInActiveEditor(n, at, placeholder) EXCEPT
                    !.pasteOps[o].inserted = @ + 1 ]
    IN  IF ~present
        THEN [ hNotice(n1, "notConfigured") EXCEPT
                   !.pasteOps[o].notConfigured = @ + 1,
                   !.pasteOps[o].absentInserted = @ + 1,
                   !.pasteOps[o].uploads = Append(@, upload(id, "null", n.active)) ]
        ELSE [ hNotice(n1, "uploading") EXCEPT
                   !.pasteOps[o].started = @ + 1,
                   !.pasteOps[o].uploads = Append(@, upload(id, "inFlight", n.active)),
                   !.log.uploads = Append(@, [ name |-> op.files[k].name, doc |-> NoFile,
                                               originalText |-> progressTextFor(id) ]) ]

RECURSIVE beginUploads(_, _, _, _, _)
beginUploads(n, o, k, ids, present) ==
    IF k > Len(n.pasteOps[o].files) THEN n
    ELSE beginUploads(beginUpload(n, o, k, ids[k], present), o, k + 1, ids, present)

\* The continuations of the uploads whose uploadImage returned null: the
\* placeholder becomes the failure comment and the promise is rejected.
RECURSIVE settleNullUploads(_, _, _, _)
settleNullUploads(n, o, k, present) ==
    IF k > Len(n.pasteOps[o].uploads) THEN n
    ELSE IF n.pasteOps[o].uploads[k].status = "null"
    THEN settleNullUploads(
             uploadRejected(
                 [ replaceInActiveEditor(n, progressTextFor(n.pasteOps[o].uploads[k].id),
                                         failureComment)
                   EXCEPT !.pasteOps[o].uploads[k].status = "failed",
                          !.pasteOps[o].uploads[k].found =
                              placeholderInReach(n, n.pasteOps[o].uploads[k].id) ],
                 o, present),
             o, k + 1, present)
    ELSE settleNullUploads(n, o, k + 1, present)

\* The for-of over the files at the end of both handlers, and the microtasks
\* it leaves behind.
startUploads(n, o, ids, present) ==
    LET n1 == settleNullUploads(beginUploads(n, o, 1, ids, present), o, 1, present)
    IN  [ n1 EXCEPT !.pasteOps[o].pc =
              IF \E k \in 1..Len(n1.pasteOps[o].uploads) :
                     n1.pasteOps[o].uploads[k].status = "inFlight"
              THEN "uploading" ELSE "done" ]

filesOf(count) == [ k \in 1..count |-> PastedFile ]

\* The guard both handlers open with (after the PasteEventCopy test of the
\* paste handler): without an uploader a notice and nothing else.
handlerRefuses(present) == ~present

\* The handlers without the confirmBeforeUpload branch: the uploads start as
\* soon as the event arrives.
handleEventUnasked(n, kind, count, cursor, ids, present, confirm) ==
    LET o == Len(n.pasteOps) + 1
        n1 == [ n EXCEPT !.pasteOps = Append(@, [ newOp(kind, FALSE, filesOf(count), cursor, present)
                                                    EXCEPT !.confirmAtEntry = confirm ]) ]
    IN  IF handlerRefuses(present)
        THEN [ hNotice(n1, "notConfigured") EXCEPT !.pasteOps[o].notConfigured = @ + 1 ]
        ELSE IF count = 0 THEN n1
        ELSE startUploads(n1, o, ids, present)

\* handlePasteEvent / handleDropEvent for a user's event carrying count image
\* files, up to the first await.
handleEvent(n, kind, count, cursor, ids, present, confirm) ==
    LET o == Len(n.pasteOps) + 1
        n1 == [ n EXCEPT !.pasteOps = Append(@, [ newOp(kind, FALSE, filesOf(count), cursor, present)
                                                    EXCEPT !.confirmAtEntry = confirm ]) ]
    IN  IF handlerRefuses(present)
        THEN [ hNotice(n1, "notConfigured") EXCEPT !.pasteOps[o].notConfigured = @ + 1 ]
        ELSE IF count = 0 THEN n1
        ELSE IF confirm THEN [ n1 EXCEPT !.pasteOps[o].pc = "modal" ]
        ELSE startUploads(n1, o, ids, present)

HandlePasteEvent ==
    /\ pc = "idle"
    /\ Len(pasteOps) < MaxEvents
    /\ \E count \in 0..MaxFiles, ids \in [ 1..MaxFiles -> PasteIds ] :
          hBecomes(handleEvent(h, "paste", count, Len(editor), ids, r2Uploader.present,
                               settings.confirmBeforeUpload))
    /\ UNCHANGED << uploaderVars, environment, docText, activeFile, pc, job, ret >>

HandleDropEvent ==
    /\ pc = "idle"
    /\ Len(pasteOps) < MaxEvents
    /\ \E count \in 0..MaxFiles, ids \in [ 1..MaxFiles -> PasteIds ],
          cursor \in { 0, Len(editor) } :
          hBecomes(handleEvent(h, "drop", count, cursor, ids, r2Uploader.present,
                               settings.confirmBeforeUpload))
    /\ UNCHANGED << uploaderVars, environment, docText, activeFile, pc, job, ret >>

\* The host finished the local paste a PasteEventCopy asked for: the image is
\* in the vault and its embed in the editor.
HostPasteResolved ==
    /\ hostPastes > 0
    /\ hBecomes([ h EXCEPT !.hostPastes = @ - 1,
                           !.editor = @ \o << "!", "[", "[", "Pasted image", ".", "png", "]", "]" >> ])
    /\ UNCHANGED << uploaderVars, environment, docText, activeFile, pc, job, ret >>

\* The handler resumes with the response of the dialog; it has returned unless
\* a later step says otherwise.
answered(n, o, answer) ==
    [ n EXCEPT !.pasteOps[o].pc = "done", !.pasteOps[o].answer = answer ]

\* modal.response() resolved with Upload, Paste Locally or a dismissal.
ModalResolved ==
    \E o \in 1..Len(pasteOps), ids \in [ 1..MaxFiles -> PasteIds ] :
        /\ pasteOps[o].pc = "modal"
        /\ \E answer \in { "upload", "pasteLocally", "dismissed" } :
              CASE answer = "upload" ->
                     hBecomes(startUploads(answered(h, o, answer), o, ids,
                                           r2Uploader.present))
                [] answer = "pasteLocally" ->
                     hBecomes(IF pasteOps[o].kind = "paste"
                              THEN handlePasteCopy(
                                       [ answered(h, o, answer) EXCEPT
                                             !.pasteOps[o].fallbacks = @ + 1 ],
                                       r2Uploader.present)
                              ELSE answered(h, o, answer))
                [] OTHER ->
                     hBecomes(answered(h, o, answer))
        /\ UNCHANGED << uploaderVars, environment, docText, activeFile, pc, job, ret >>

\* modal.response() resolved with Always Upload: the setting is switched off
\* and saveSettings() awaited.
ModalResolvedAlways ==
    \E o \in 1..Len(pasteOps) :
        /\ pasteOps[o].pc = "modal"
        /\ settings' = [ settings EXCEPT !.confirmBeforeUpload = FALSE ]
        /\ settingsDirty' = TRUE
        /\ pasteOps' = [ pasteOps EXCEPT ![o].pc = "saving",
                                         ![o].answer = "alwaysUpload" ]
        /\ UNCHANGED << uploaderVars, r2Uploader, savesInFlight, settingChanges, vaultFiles, linkIndex,
                        attachmentFolderPath, docText, activeFile, pc, job, ret, log,
                        editor, hostPastes >>

\* The saveSettings() awaited by a handler completed: setupR2Uploader(), then
\* the uploads start.
HandlerSaveResolved ==
    \E o \in 1..Len(pasteOps), ids \in [ 1..MaxFiles -> PasteIds ] :
        /\ pasteOps[o].pc = "saving"
        /\ r2Uploader' = setupR2Uploader(settings)
        /\ settingsDirty' = FALSE
        /\ hBecomes(startUploads([ h EXCEPT !.pasteOps[o].saved = TRUE ], o, ids,
                                 setupR2Uploader(settings).present))
        /\ UNCHANGED << uploaderVars, settings, savesInFlight, settingChanges, vaultFiles, linkIndex,
                        attachmentFolderPath, docText, activeFile, pc, job, ret >>

\* r2Uploader.upload settled for upload k of handler invocation o.
HandlerUploadSettled ==
    \E o \in 1..Len(pasteOps) :
        \E k \in 1..Len(pasteOps[o].uploads), ok \in BOOLEAN :
            /\ pasteOps[o].uploads[k].status = "inFlight"
            /\ LET id == pasteOps[o].uploads[k].id
                   n == [ h EXCEPT !.pasteOps[o].uploads[k].status =
                                       IF ok THEN "uploaded" ELSE "failed",
                                   !.pasteOps[o].uploads[k].found =
                                       placeholderInReach(h, id),
                                   !.pasteOps[o].pc =
                                       IF \E i \in 1..Len(pasteOps[o].uploads) :
                                              i # k /\ pasteOps[o].uploads[i].status = "inFlight"
                                       THEN "uploading" ELSE "done" ]
               IN  IF ok
                   THEN hBecomes(replaceInActiveEditor(
                            hNotice(n, "uploaded"), progressTextFor(id),
                            embedTagFor(uploadUrl(k, pasteOps[o].files[k].name),
                                        pasteOps[o].files[k])))
                   ELSE hBecomes(uploadRejected(
                            replaceInActiveEditor(hNotice(n, "uploadFailed"),
                                                  progressTextFor(id), failureComment),
                            o, r2Uploader.present))
            /\ UNCHANGED << uploaderVars, environment, docText, activeFile, pc, job, ret >>

\* The user opens another note (or comes back) while a handler is suspended:
\* workspace.getActiveViewOfType(MarkdownView) now gives that note's view.
SwitchActiveView ==
    /\ \E o \in 1..Len(pasteOps) : pasteOps[o].pc \in { "saving", "uploading" }
    /\ activeFile' = IF activeFile = EventNote THEN "D2" ELSE EventNote
    /\ UNCHANGED << uploaderVars, environment, docText, pc, job, ret, log, handlerVars >>

SettingFields == { "accessKeyId", "secretAccessKey", "endpoint", "bucketName" }

\* An onChange of the settings tab: the field is assigned, then saveSettings()
\* is awaited.
ChangeSetting ==
    /\ pc = "idle"
    /\ settingChanges < MaxSettingChanges
    /\ \E f \in SettingFields, v \in { "", "x" } :
          /\ settings[f] # v
          /\ settings' = [ settings EXCEPT ![f] = v ]
    /\ settingsDirty' = TRUE
    /\ savesInFlight' = savesInFlight + 1
    /\ settingChanges' = settingChanges + 1
    /\ UNCHANGED << uploaderVars, r2Uploader, vaultFiles, linkIndex, attachmentFolderPath, docText,
                    activeFile, pc, job, ret, log, handlerVars >>

\* saveData resolved inside a saveSettings() of the settings tab:
\* setupR2Uploader() runs.
SaveSettingsResolved ==
    /\ savesInFlight > 0
    /\ savesInFlight' = savesInFlight - 1
    /\ r2Uploader' = setupR2Uploader(settings)
    /\ settingsDirty' = FALSE
    /\ UNCHANGED << uploaderVars, settings, settingChanges, vaultFiles, linkIndex,
                    attachmentFolderPath, docText, activeFile, pc, job, ret, log,
                    handlerVars >>

\* The paste/drop world starts from any of the four credentials present or
\* missing, no publish command running.
InitHandlers ==
    /\ \E a, b, c, d \in { "", "x" }, confirm \in BOOLEAN :
          settings = settingsWith([ accessKeyId |-> a, secretAccessKey |-> b,
                                    endpoint |-> c, bucketName |-> d ],
                                  TRUE, FALSE, confirm)
    /\ r2Uploader = setupR2Uploader(settings)
    /\ savesInFlight = 0
    /\ settingChanges = 0
    /\ settingsDirty = FALSE
    /\ vaultFiles = << >>
    /\ linkIndex = FALSE
    /\ attachmentFolderPath = << "/" >>
    /\ docText = [ d \in { "D1", "D2" } |-> SegBody ]
    /\ activeFile = "D1"
    /\ pc = "idle"
    /\ job = EmptyJob
    /\ ret = NoRet
    /\ log = EmptyLog
    /\ editor = SegBody
    /\ pasteOps = << >>
    /\ hostPastes = 0
    /\ instances = << >>
    /\ calls = << >>
    /\ applied = NotApplied

NextHandlers ==
    \/ HandlePasteEvent
    \/ HandleDropEvent
    \/ HostPasteResolved
    \/ ModalResolved
    \/ ModalResolvedAlways
    \/ HandlerSaveResolved
    \/ HandlerUploadSettled
    \/ SwitchActiveView
    \/ ChangeSetting
    \/ SaveSettingsResolved

SpecHandlers == InitHandlers /\ [][NextHandlers]_vars

(***************************************************************************)
(* A document changes while a publish of it is suspended.                  *)
(***************************************************************************)
TypedText == << "typed" >>

PendingPasteId == "id1"

PendingPasteUrl == << "https://", "cdn", "/", "shot", ".", "png" >>

\* A note in which a pasted file is still uploading starts with the
\* placeholder of that paste.
EditedTexts ==
    textsOver({ 1, 3, 4 })
        \cup { progressTextFor(PendingPasteId) \o << "\n" >> \o text :
                  text \in textsOver({ 1, 3, 4 }) }

\* The text a change leaves in the document: what the user typed, or the tag
\* embedMarkDownImage puts in the place of the placeholder.
editInserts(kind) ==
    IF kind = "typed" THEN TypedText ELSE embedTagFor(PendingPasteUrl, PastedFile)

editedText(text, kind) ==
    IF kind = "typed" THEN text \o TypedText
    ELSE replaceFirstOccurrence(text, progressTextFor(PendingPasteId),
                                editInserts(kind))

InitEditing ==
    /\ \E dl \in BOOLEAN :
          settings = settingsWith([ accessKeyId |-> "x", secretAccessKey |-> "x",
                                    endpoint |-> "x", bucketName |-> "x" ],
                                  FALSE, dl, TRUE)
    /\ r2Uploader = setupR2Uploader(settings)
    /\ savesInFlight = 0
    /\ settingChanges = 0
    /\ settingsDirty = FALSE
    /\ vaultFiles = VaultExact
    /\ linkIndex = TRUE
    /\ attachmentFolderPath = << "/" >>
    /\ \E text \in EditedTexts :
          docText = [ d \in { "D1", "D2" } |-> IF d = "D1" THEN text ELSE OtherDocumentText ]
    /\ activeFile \in { "D1", "D2" }
    /\ pc = "idle"
    /\ job = EmptyJob
    /\ ret = NoRet
    /\ log = EmptyLog
    /\ editor = << >>
    /\ pasteOps = << >>
    /\ hostPastes = 0
    /\ instances = << >>
    /\ calls = << >>
    /\ applied = NotApplied

\* While the publish of a document is suspended on readBinary, a download or
\* an upload, the user types into the document, or the upload of a paste into
\* it settles and replaceFirstOccurrence exchanges the placeholder for the tag.
EditDocument ==
    /\ pc \in { "readBinary", "download", "upload" }
    /\ Len(log.edits) < MaxEdits
    /\ \E kind \in { "typed", "pasteSettled" } :
          /\ editedText(docText[job.fileContext], kind) # docText[job.fileContext]
          /\ docText' = [ docText EXCEPT ![job.fileContext] = editedText(@, kind) ]
          /\ log' = [ log EXCEPT !.edits = Append(@, [ doc |-> job.fileContext,
                                                       kind |-> kind ]) ]
    /\ UNCHANGED << uploaderVars, environment, activeFile, pc, job, ret, handlerVars >>

NextEditing ==
    \/ PublishPage
    \/ PublishVault
    \/ VaultReadResolved
    \/ ReadBinarySettled
    \/ DownloadSettled
    \/ UploadSettled
    \/ VaultModifyResolved
    \/ EditDocument

SpecEditing == InitEditing /\ [][NextEditing]_vars


(***************************************************************************)
(* UploaderUtils.                                                          *)
(***************************************************************************)
\* A fragment that holds the character "/".
hasSlash(c) == c \in { "/", "https://", "http://" }

\* String.prototype.replace(pattern, replacement) with string arguments: the
\* first occurrence only, the replacement read as a substitution template.
stringReplace(str, pattern, replacement) ==
    IF indexOf(str, pattern, 1) = 0 THEN str
    ELSE SubSeq(str, 1, indexOf(str, pattern, 1) - 1)
         \o getSubstitution(pattern, SubSeq(str, 1, indexOf(str, pattern, 1) - 1),
                            SubSeq(str, indexOf(str, pattern, 1) + Len(pattern), Len(str)),
                            replacement)
         \o SubSeq(str, indexOf(str, pattern, 1) + Len(pattern), Len(str))

\* String.prototype.trim() === '' : nothing but white space.
isBlank(str) == \A i \in 1..Len(str) : str[i] = " "

\* Where the leftmost match of /https?:\/\/([^/]+)/ starts at or after p; 0
\* when there is none.
RECURSIVE schemeMatchFrom(_, _)
schemeMatchFrom(url, p) ==
    IF p + 1 > Len(url) THEN 0
    ELSE IF url[p] \in { "https://", "http://" } /\ ~hasSlash(url[p + 1]) THEN p
    ELSE schemeMatchFrom(url, p + 1)

\* Where the greedy group ([^/]+) that covers position p ends.
RECURSIVE domainEnd(_, _)
domainEnd(url, p) ==
    IF p + 1 <= Len(url) /\ ~hasSlash(url[p + 1]) THEN domainEnd(url, p + 1) ELSE p

\* url.replace(regex, (match, domain) => match.replace(domain, customDomainName))
\* for the match that starts at p and ends at e.
replaceDomain(url, customDomainName, p, e) ==
    SubSeq(url, 1, p - 1)
    \o stringReplace(SubSeq(url, p, e), SubSeq(url, p + 1, e), customDomainName)
    \o SubSeq(url, e + 1, Len(url))

\* customizeDomainName once 'https://' has been removed from the domain.
customizeStripped(url, customDomainName) ==
    IF Len(customDomainName) > 0 /\ ~isBlank(customDomainName)
    THEN IF schemeMatchFrom(url, 1) # 0
         THEN replaceDomain(url, customDomainName, schemeMatchFrom(url, 1),
                            domainEnd(url, schemeMatchFrom(url, 1) + 1))
         ELSE << "https://" >> \o customDomainName \o << "/" >> \o url
    ELSE url

customizeDomainName(url, customDomainName) ==
    customizeStripped(url, replaceAll(customDomainName, << "https://" >>, << >>))

\* The clock and the random source of generateName, fixed.
Timestamp == << "20260102030405006" >>

\* originalName.replace(/\.[^/.]+$/, ''): the last '.' and what follows it go
\* when at least one character follows and none of them is a '/'.
nameWithoutExt(originalName) ==
    IF /\ lastIndexOf(originalName, ".") # 0
       /\ lastIndexOf(originalName, ".") < Len(originalName)
       /\ \A i \in (lastIndexOf(originalName, ".") + 1)..Len(originalName) :
              originalName[i] # "/"
    THEN SubSeq(originalName, 1, lastIndexOf(originalName, ".") - 1)
    ELSE originalName

\* generateUniqueFileName(originalName).
uniqueNameWith(originalName, extension) ==
    IF (\E i \in 1..Len(originalName) : toLowerCase(originalName[i]) = "image")
          \/ originalName = << "blob" >>
    THEN << "Pasted image", " " >> \o Timestamp \o << "." >> \o extension
    ELSE nameWithoutExt(originalName) \o << " " >> \o Timestamp \o << "." >> \o extension

generateUniqueFileName(originalName) ==
    uniqueNameWith(originalName,
                   IF Len(split(originalName, ".")[Len(split(originalName, "."))]) = 0
                   THEN << "png" >>
                   ELSE split(originalName, ".")[Len(split(originalName, "."))])

\* generateName(pathTmpl, imageName): the placeholders of the template, each
\* replaced once.
generateName(pathTmpl, imageName) ==
    IF Len(pathTmpl) > 0 /\ ~isBlank(pathTmpl)
    THEN stringReplace(
             stringReplace(
                 stringReplace(
                     stringReplace(
                         stringReplace(pathTmpl, << "{year}" >>, << "2026" >>),
                         << "{mon}" >>, << "01" >>),
                     << "{day}" >>, << "02" >>),
                 << "{random}" >>, << "Rnd20" >>),
             << "{filename}" >>, generateUniqueFileName(imageName))
    ELSE generateUniqueFileName(imageName)

\* path.replace(/^\/+/, '').
RECURSIVE removeLeadingSlashes(_)
removeLeadingSlashes(path) ==
    IF Len(path) > 0 /\ path[1] = "/" THEN removeLeadingSlashes(Tail(path)) ELSE path

\* String.prototype.split(separator).pop() for a separator of several
\* fragments: what follows the last occurrence found from the left.
RECURSIVE lastPiece(_, _, _)
lastPiece(str, separator, from) ==
    IF indexOf(str, separator, from) = 0 THEN SubSeq(str, from, Len(str))
    ELSE lastPiece(str, separator, indexOf(str, separator, from) + Len(separator))

(***************************************************************************)
(* The SigV4 uploader's signing.  Digests are terms: HMAC(k, d) is the      *)
(* tuple << "HMAC", k, d >>, so that two digests are equal exactly when     *)
(* they were computed from the same key and data.  A value is a byte        *)
(* buffer or a string.                                                      *)
(***************************************************************************)
buffer(bytes) == [ kind |-> "buffer", value |-> bytes ]

string(text) == [ kind |-> "string", value |-> text ]

\* new TextEncoder().encode(text): the UTF-8 bytes of a string.
encode(text) == buffer(<< "utf8", text >>)

\* hashArray.map(b => b.toString(16).padStart(2, '0')).join(''): the digest
\* written out as a string of hexadecimal digits.
hexString(digest) == string(<< "hex", digest >>)

Thrown == [ threw |-> TRUE ]

returned(value) == [ threw |-> FALSE, value |-> value ]

\* crypto.subtle.importKey('raw', key, ...) takes a BufferSource: a string
\* is rejected with a TypeError.
importKeyThrows(key) == key.kind # "buffer"

\* hmacSha256(key, data): the HMAC-SHA256 of the encoded data, as a hex string.
hmacSha256(key, data) ==
    IF importKeyThrows(key) THEN Thrown
    ELSE returned(hexString(<< "HMAC", key.value, encode(data).value >>))

\* One more stage of the chain, keyed with what the stage before returned.
nextStage(previous, data) ==
    IF previous.threw THEN Thrown ELSE hmacSha256(previous.value, data)

\* const region = 'auto'; const service = 's3'.
Region == << "auto" >>

Service == << "s3" >>

Aws4Request == << "aws4_request" >>

\* getSignatureKey(key, dateStamp, regionName, serviceName, stringToSign).
getSignatureKey(key, dateStamp, regionName, serviceName, stringToSign) ==
    nextStage(
        nextStage(
            nextStage(
                nextStage(hmacSha256(encode(<< "AWS4" >> \o key), dateStamp), regionName),
                serviceName),
            Aws4Request),
        stringToSign)

\* sha256(data): a string is encoded, a buffer is digested as it is.
sha256(data) ==
    hexString(<< "SHA256", IF data.kind = "string" THEN encode(data.value).value
                           ELSE data.value >>)

\* this.endpoint.replace(/^https?:\/\//, '').
withoutScheme(endpoint) ==
    IF Len(endpoint) > 0 /\ Head(endpoint) \in { "https://", "http://" }
    THEN Tail(endpoint) ELSE endpoint

\* now.toISOString() cut down to the date stamp and to the x-amz-date value.
SigningDate == [ dateStamp |-> << "20260102" >>, amzDate |-> << "20260102T030405Z" >> ]

\* The canonical request and the string to sign, their parts kept apart.
canonicalRequest(method, canonicalUri, host, payloadHash, amzDate) ==
    << method, canonicalUri, << >>,
       << "host:", host, "x-amz-content-sha256:", payloadHash.value, "x-amz-date:", amzDate >>,
       << "host;x-amz-content-sha256;x-amz-date" >>, payloadHash.value >>

stringToSignFor(amzDate, dateStamp, request) ==
    << "AWS4-HMAC-SHA256", amzDate, << dateStamp, Region, Service, Aws4Request >>,
       sha256(string(request)).value >>

NotSigned == [ threw |-> FALSE, signed |-> FALSE ]

\* createSignedRequest(method, key, contentType, body): what it signs, and the
\* headers it returns unless getSignatureKey throws.
createSignedRequest(this, method, key, contentType, body) ==
    [ signed |-> TRUE,
      canonicalUri |-> << "/" >> \o key,
      host |-> withoutScheme(this.endpoint),
      hashedBody |-> body,
      payloadHash |-> sha256(body),
      signature |->
          getSignatureKey(
              this.secretAccessKey, SigningDate.dateStamp, Region, Service,
              stringToSignFor(SigningDate.amzDate, SigningDate.dateStamp,
                              canonicalRequest(method, << "/" >> \o key,
                                               withoutScheme(this.endpoint), sha256(body),
                                               SigningDate.amzDate))),
      threw |->
          getSignatureKey(
              this.secretAccessKey, SigningDate.dateStamp, Region, Service,
              stringToSignFor(SigningDate.amzDate, SigningDate.dateStamp,
                              canonicalRequest(method, << "/" >> \o key,
                                               withoutScheme(this.endpoint), sha256(body),
                                               SigningDate.amzDate))).threw ]

\* reader.result of readFileAsArrayBuffer(image).
arrayBufferOf(name) == buffer(<< "content of", name >>)

NoBody == [ kind |-> "none", value |-> << >> ]

\* upload() of a call from the resolved file read up to its next await: the
\* SigV4 uploader signs and then sends (or its catch block rethrows), the SDK
\* uploader hands the buffer to the SDK.
afterFileRead(call, this, key) ==
    IF call.variant = "fetch"
    THEN LET request == createSignedRequest(this, "PUT", key, << "image/", "png" >>,
                                            arrayBufferOf(call.name))
         IN  [ call EXCEPT !.key = key, !.putWith = this, !.request = request,
                           !.pc = IF request.threw THEN "rejected" ELSE "put",
                           !.resolvedWith = IF request.threw THEN this ELSE @,
                           !.sentBody = IF request.threw THEN NoBody
                                        ELSE arrayBufferOf(call.name) ]
    ELSE [ call EXCEPT !.key = key, !.putWith = this, !.pc = "put",
                       !.sentBody = arrayBufferOf(call.name) ]

(***************************************************************************)
(* R2Uploader objects and their upload() calls.  The objects live in a     *)
(* heap (instances) and this.r2Uploader is a reference into it, so that an *)
(* object and a later object with other field values are told apart.       *)
(***************************************************************************)
\* JavaScript truthiness of a settings text.
truthyText(text) == Len(text) > 0

credentialsPresent(cfg) ==
    /\ truthyText(cfg.accessKeyId)
    /\ truthyText(cfg.secretAccessKey)
    /\ truthyText(cfg.endpoint)
    /\ truthyText(cfg.bucketName)

\* The constructor of R2Uploader: every field is assigned once, from r2Setting.
newR2Uploader(cfg) ==
    [ accessKeyId |-> cfg.accessKeyId, secretAccessKey |-> cfg.secretAccessKey,
      endpoint |-> cfg.endpoint, bucket |-> cfg.bucketName,
      pathTemplate |-> cfg.targetPath, customDomainName |-> cfg.customDomainName ]

NullUploader == [ present |-> FALSE, ref |-> 0 ]

\* The fields of the object this.r2Uploader points to are assigned anew.
mutateUploader(heap, current, cfg) ==
    IF credentialsPresent(cfg)
    THEN IF current.present
         THEN [ instances |-> [ heap EXCEPT ![current.ref] = newR2Uploader(cfg) ],
                r2Uploader |-> current ]
         ELSE [ instances |-> Append(heap, newR2Uploader(cfg)),
                r2Uploader |-> [ present |-> TRUE, ref |-> Len(heap) + 1 ] ]
    ELSE [ instances |-> heap, r2Uploader |-> NullUploader ]

\* setupR2Uploader(): this.r2Uploader = new R2Uploader(r2Setting), or null.
replaceUploader(heap, current, cfg) ==
    IF credentialsPresent(cfg)
    THEN [ instances |-> Append(heap, newR2Uploader(cfg)),
           r2Uploader |-> [ present |-> TRUE, ref |-> Len(heap) + 1 ] ]
    ELSE [ instances |-> heap, r2Uploader |-> NullUploader ]

\* `${endpoint}/${bucket}/${key}`: the URL the object is PUT to, and
\* data.Location of the SDK for a path-style endpoint.
objectUrl(endpoint, bucket, key) == endpoint \o << "/" >> \o bucket \o << "/" >> \o key

\* What upload() resolves to.  "sdk" is src/src/uploader/r2Uploader.ts (and the
\* XHR uploader, which computes the same), "fetch" the SigV4 uploader.
publicUrl(variant, this, key) ==
    IF variant = "fetch"
    THEN customizeDomainName(objectUrl(this.endpoint, this.bucket, key),
                             this.customDomainName)
    ELSE customizeDomainName(
             lastPiece(objectUrl(this.endpoint, this.bucket, key),
                       << "/" >> \o this.bucket \o << "/" >>, 1),
             this.customDomainName)

\* The values the settings tab can put into the fields the uploader is built
\* from; << >> is an emptied field.
SettingValues ==
    [ accessKeyId |-> { << >>, << "AK1" >>, << "AK2" >> },
      secretAccessKey |-> { << "SK1" >>, << "SK2" >> },
      endpoint |-> { << "https://", "acct" >>, << "http://", "local" >> },
      bucketName |-> { << "bkt" >>, << "img" >> },
      targetPath |-> { << >>, << "a", "/", "bkt", "/", "{filename}" >> },
      customDomainName |-> { << >>, << "cdn" >> } ]

UploaderFields == DOMAIN SettingValues

UploadNames == { << "pic", ".", "png" >>, << "blob" >> }

UploaderVariants == { "sdk", "fetch" }

\* The plugin after onload() with one of the configurations.
InitUploader ==
    /\ settings \in [ accessKeyId : { << "AK1" >> }, secretAccessKey : { << "SK1" >> },
                      endpoint : SettingValues.endpoint,
                      bucketName : SettingValues.bucketName,
                      targetPath : SettingValues.targetPath,
                      customDomainName : SettingValues.customDomainName ]
    /\ instances = replaceUploader(<< >>, NullUploader, settings).instances
    /\ r2Uploader = replaceUploader(<< >>, NullUploader, settings).r2Uploader
    /\ calls = << >>
    /\ applied = NotApplied
    /\ savesInFlight = 0
    /\ settingChanges = 0
    /\ settingsDirty = FALSE
    /\ vaultFiles = << >>
    /\ linkIndex = FALSE
    /\ attachmentFolderPath = << "/" >>
    /\ docText = [ d \in { "D1", "D2" } |-> SegBody ]
    /\ activeFile = "D1"
    /\ pc = "idle"
    /\ job = EmptyJob
    /\ ret = NoRet
    /\ log = EmptyLog
    /\ editor = << >>
    /\ pasteOps = << >>
    /\ hostPastes = 0

otherWorlds == << vaultFiles, linkIndex, attachmentFolderPath, docText, activeFile, pc, job,
                  ret, log, editor, pasteOps, hostPastes, applied >>

\* An onChange callback of the settings tab: the field is assigned and
\* saveSettings() called, which suspends on saveData.
UploaderChangeSetting ==
    /\ settingChanges < MaxConfigChanges
    /\ \E field \in UploaderFields :
          \E value \in SettingValues[field] :
              /\ value # settings[field]
              /\ settings' = [ settings EXCEPT ![field] = value ]
    /\ settingChanges' = settingChanges + 1
    /\ savesInFlight' = savesInFlight + 1
    /\ settingsDirty' = TRUE
    /\ UNCHANGED << r2Uploader, instances, calls, otherWorlds >>

\* await this.saveData(this.settings) resolved: setupR2Uploader().
UploaderSaveResolved ==
    /\ savesInFlight > 0
    /\ instances' = replaceUploader(instances, r2Uploader, settings).instances
    /\ r2Uploader' = replaceUploader(instances, r2Uploader, settings).r2Uploader
    /\ savesInFlight' = savesInFlight - 1
    /\ settingsDirty' = FALSE
    /\ UNCHANGED << settings, settingChanges, calls, otherWorlds >>

\* uploadImage(file) calls this.r2Uploader.upload(file, ''): the call runs on
\* the object the reference points to now, up to readFileAsArrayBuffer.
StartUpload ==
    /\ r2Uploader.present
    /\ Len(calls) < MaxCalls
    /\ \E name \in UploadNames, variant \in UploaderVariants :
          calls' = Append(calls, [ this |-> r2Uploader.ref, variant |-> variant,
                                   name |-> name, pc |-> "readFile",
                                   startedWith |-> instances[r2Uploader.ref],
                                   key |-> << >>, putWith |-> << >>,
                                   resolvedWith |-> << >>, response |-> NoStatus,
                                   url |-> << >>, request |-> NotSigned,
                                   sentBody |-> NoBody ])
    /\ UNCHANGED << settings, r2Uploader, instances, savesInFlight, settingChanges,
                    settingsDirty, otherWorlds >>

\* readFileAsArrayBuffer resolved: the key is generated from this.pathTemplate
\* and the PUT goes out with the credentials, endpoint and bucket of this.
FileRead ==
    /\ \E i \in 1..Len(calls) :
          /\ calls[i].pc = "readFile"
          /\ calls' = [ calls EXCEPT
                 ![i] = afterFileRead(
                            calls[i], instances[calls[i].this],
                            removeLeadingSlashes(
                                generateName(instances[calls[i].this].pathTemplate,
                                             calls[i].name))) ]
    /\ UNCHANGED << settings, r2Uploader, instances, savesInFlight, settingChanges,
                    settingsDirty, otherWorlds >>

\* The PUT settled: the public URL is computed from the fields of this, or the
\* promise is rejected.
PutSettled ==
    /\ \E i \in 1..Len(calls), response \in Responses :
          /\ calls[i].pc = "put"
          /\ calls' = [ calls EXCEPT
                 ![i].pc = IF putSucceeded(response) THEN "resolved" ELSE "rejected",
                 ![i].response = response,
                 ![i].resolvedWith = instances[calls[i].this],
                 ![i].url = IF putSucceeded(response)
                            THEN publicUrl(calls[i].variant, instances[calls[i].this],
                                           calls[i].key)
                            ELSE << >> ]
    /\ UNCHANGED << settings, r2Uploader, instances, savesInFlight, settingChanges,
                    settingsDirty, otherWorlds >>

NextUploader ==
    \/ UploaderChangeSetting
    \/ UploaderSaveResolved
    \/ StartUpload
    \/ FileRead
    \/ PutSettled

SpecUploader == InitUploader /\ [][NextUploader]_vars

(***************************************************************************)
(* The pure helpers, applied to inputs of their own.                       *)
(***************************************************************************)
\* ImageTagProcessor.replaceImageTag(content, imageTag, newUrl).
replaceImageTag(content, imageTag, newUrl) ==
    SubSeq(content, 1, imageTag.start)
    \o ( IF isVideoAsset(imageTag.imagePath) \/ isVideoAsset(newUrl)
         THEN << "<video controls src=\"" >> \o newUrl \o << "\"></video>" >>
         ELSE IF startsWith(imageTag.originalText, << "!", "[", "[" >>)
                 /\ endsWith(imageTag.originalText, << "]", "]" >>)
         THEN << "!", "[", "]", "(" >> \o newUrl \o << ")" >>
         ELSE << "!", "[" >> \o imageTag.altText \o << "]", "(" >> \o newUrl \o << ")" >> )
    \o SubSeq(content, imageTag.end + 1, Len(content))

\* URLs an upload can resolve to: a plain one, one of a video, and one whose
\* key keeps the ")" of the uploaded file's name (pic (1).png).
NewUrls ==
    { << "https://", "cdn", "/", "k1", ".", "png" >>,
      << "https://", "cdn", "/", "k2", ".", "mp4" >>,
      << "https://", "cdn", "/", "pic", " ", "(", "1", ")", ".", "png" >> }

DomainUrls ==
    { << "https://", "acct", "/", "bkt", "/", "key", ".", "png" >>,
      << "http://", "acct", "/", "bkt", "/", "key", ".", "png" >>,
      << "https://", "acct" >>,
      << "bkt", "/", "key", ".", "png" >>,
      << "key", ".", "png" >> }

CustomDomains == { << >>, << "cdn" >>, << "https://", "cdn" >> }

InitPure ==
    /\ settings = settingsWith([ accessKeyId |-> "", secretAccessKey |-> "",
                                 endpoint |-> "", bucketName |-> "" ], TRUE, FALSE, TRUE)
    /\ r2Uploader = NoUploader
    /\ instances = << >>
    /\ calls = << >>
    /\ applied = NotApplied
    /\ savesInFlight = 0
    /\ settingChanges = 0
    /\ settingsDirty = FALSE
    /\ vaultFiles = << >>
    /\ linkIndex = FALSE
    /\ attachmentFolderPath = << "/" >>
    /\ docText = [ d \in { "D1", "D2" } |-> SegBody ]
    /\ activeFile = "D1"
    /\ pc = "idle"
    /\ job = EmptyJob
    /\ ret = NoRet
    /\ log = EmptyLog
    /\ editor = << >>
    /\ pasteOps = << >>
    /\ hostPastes = 0

notApplied == << settings, r2Uploader, instances, calls, savesInFlight, settingChanges,
                 settingsDirty, vaultFiles, linkIndex, attachmentFolderPath, docText,
                 activeFile, pc, job, ret, log, editor, pasteOps, hostPastes >>

\* UploaderUtils.customizeDomainName(url, customDomainName).
ApplyCustomizeDomainName ==
    /\ \E url \in DomainUrls, customDomainName \in CustomDomains :
          applied' = [ fn |-> "customizeDomainName", url |-> url,
                       customDomainName |-> customDomainName,
                       result |-> customizeDomainName(url, customDomainName) ]
    /\ UNCHANGED notApplied

\* replaceImageTag(content, imageTag, newUrl) for a tag extracted from content.
ApplyReplaceImageTag ==
    /\ \E content \in DocumentTexts, newUrl \in NewUrls :
          \E k \in 1..Len(extractImageTags(content)) :
              applied' = [ fn |-> "replaceImageTag", content |-> content,
                           imageTag |-> extractImageTags(content)[k], newUrl |-> newUrl,
                           result |-> replaceImageTag(content, extractImageTags(content)[k],
                                                      newUrl) ]
    /\ UNCHANGED notApplied

SecretKeys == { << >>, << "SK1" >>, << "SK2" >> }

DateStamps == { << "20260102" >>, << "20261231" >> }

StringsToSign ==
    { << "AWS4-HMAC-SHA256", "\n", amzDate, "\n", "scope", "\n", hash >> :
        amzDate \in { "20260102T030405Z", "20261231T235959Z" }, hash \in { "h1", "h2" } }

\* getSignatureKey(this.secretAccessKey, dateStamp, region, service, stringToSign).
ApplyGetSignatureKey ==
    /\ \E key \in SecretKeys, dateStamp \in DateStamps, stringToSign \in StringsToSign :
          applied' = [ fn |-> "getSignatureKey", key |-> key, dateStamp |-> dateStamp,
                       stringToSign |-> stringToSign,
                       result |-> getSignatureKey(key, dateStamp, Region, Service,
                                                  stringToSign) ]
    /\ UNCHANGED notApplied

OriginalNames ==
    { << "pic", ".", "png" >>, << "blob" >>, << "Image", ".", "PNG" >>,
      << "my", "image", ".", "jpg" >>, << "notes" >>, << "pic", "." >>,
      << "pic", ".", "tar", ".", "gz" >>, << "blob", ".", "png" >> }

\* generateUniqueFileName(originalName).
ApplyGenerateUniqueFileName ==
    /\ \E originalName \in OriginalNames :
          applied' = [ fn |-> "generateUniqueFileName", originalName |-> originalName,
                       result |-> generateUniqueFileName(originalName) ]
    /\ UNCHANGED notApplied

NextPure ==
    \/ ApplyGenerateUniqueFileName
    \/ ApplyGetSignatureKey
    \/ ApplyCustomizeDomainName
    \/ ApplyReplaceImageTag

SpecPure == InitPure /\ [][NextPure]_vars

(***************************************************************************)
(* Properties.                                                             *)
(***************************************************************************)
contains(s, t) == indexOf(s, t, 1) # 0

\* Non-overlapping occurrences of t in s, left to right.
RECURSIVE countFrom(_, _, _)
countFrom(s, t, from) ==
    LET at == indexOf(s, t, from)
    IN  IF Len(t) = 0 \/ at = 0 THEN 0 ELSE 1 + countFrom(s, t, at + Len(t))

countOccurrences(s, t) == countFrom(s, t, 1)

count(seq, Test(_)) == Len(SelectSeq(seq, Test))

failed(outcome) == outcome.result # "uploaded"

\* The pairs the successful references of a call stand for, in their order.
pairsMatchOutcomes(replacements, outcomes) ==
    LET done == SelectSeq(outcomes, LAMBDA o : o.result = "uploaded")
    IN  /\ Len(replacements) = Len(done)
        /\ \A k \in 1..Len(done) : replacements[k].originalText = done[k].tag.originalText

\* Every failed reference of a returned call costs one error and no pair, and
\* every reference was processed.
C1_Counted ==
    ret.valid =>
        /\ ret.errorCount = count(ret.outcomes, failed)
        /\ ret.successCount = Len(ret.replacements)
        /\ pairsMatchOutcomes(ret.replacements, ret.outcomes)
        /\ Len(ret.outcomes) = Len(ret.localImageTags) + Len(ret.externalImageTags)

\* C1: every reference whose processing fails adds one to errorCount and no
\* pair to the plan, the remaining references are still processed, and the
\* returned text has every successfully uploaded reference rewritten (none of
\* their original texts is left in it).
C1_FailuresCountedRestRewritten ==
    /\ C1_Counted
    /\ (ret.valid /\ ret.errorCount > 0) =>
           \A k \in 1..Len(ret.replacements) :
               ~contains(ret.updatedContent, ret.replacements[k].originalText)

\* C2: uploadLocalImagesInContent never throws past its boundary: a finished
\* command of the plugin's main file has a returned result with counts, whatever
\* path resolution, lookup, read, download and upload did.
C2_AlwaysReturns ==
    /\ ret.valid => ~ret.threw
    /\ (pc \in { "done", "modify" } /\ job.mode \in { "page", "folder", "vault", "selected" }) =>
           /\ ret.valid
           /\ ret.successCount + ret.errorCount = Len(ret.outcomes)

\* A call returned although a reference raised an exception inside it.
C2_Witness ==
    /\ ret.valid
    /\ \E k \in 1..Len(ret.outcomes) :
          ret.outcomes[k].result \in { "resolveThrew", "readError", "downloadError" }

\* C3: after a whole-document publish no occurrence of a pair's originalText
\* remains in the returned text, and each occurrence the input had is now the
\* tag built for that pair.
C3_EveryOccurrenceReplaced ==
    ret.valid =>
        \A k \in 1..Len(ret.replacements) :
            LET pair == ret.replacements[k]
            IN  /\ ~contains(ret.updatedContent, pair.originalText)
                /\ countOccurrences(ret.updatedContent,
                                    newImageTagFor(pair, settings.useImageNameAsAltText))
                       >= countOccurrences(ret.content, pair.originalText)

\* C4: two identical embeds in one document whose uploads succeed cost exactly
\* one upload, and both occurrences carry the same new URL.
C4_OneUploadForIdenticalEmbeds ==
    (ret.valid /\ ret.errorCount = 0) =>
        \A i, j \in 1..Len(ret.localImageTags) :
            (i < j /\ ret.localImageTags[i].originalText = ret.localImageTags[j].originalText) =>
                LET text == ret.localImageTags[i].originalText
                    sameEmbed(u) == u.doc = ret.fileContext /\ u.originalText = text
                IN  /\ count(log.uploads, sameEmbed) = 1
                    /\ \E k \in 1..Len(ret.replacements) :
                          countOccurrences(ret.updatedContent,
                                           newImageTagFor(ret.replacements[k],
                                                          settings.useImageNameAsAltText))
                              = countOccurrences(ret.content, text)

\* The uploader is held exactly when the four credentials are non-empty, once
\* every assignment to the settings has been followed by setupR2Uploader().
C5_UploaderIffConfigured ==
    ~settingsDirty => (r2Uploader.present <=> allConfigured(settings))

\* A user's paste or drop that arrives while no uploader is held gets the
\* notice and nothing else.
C5_UserEventRefused ==
    \A o \in 1..Len(pasteOps) :
        (~pasteOps[o].entryUploader /\ ~pasteOps[o].copy) =>
            /\ pasteOps[o].notConfigured = 1
            /\ pasteOps[o].inserted = 0
            /\ pasteOps[o].started = 0
            /\ pasteOps[o].pc = "done"

\* C5: after onload and every completed saveSettings the uploader is held iff
\* the four credentials are non-empty; whenever none is held, uploadImage and
\* the paste and drop handlers upload nothing, insert nothing into the document
\* and emit the 'not configured' notice.  Stated here for the events a user
\* makes: none of them has text put into the document while no uploader is
\* held.
C5_UnconfiguredRefusesLoudly ==
    /\ C5_UploaderIffConfigured
    /\ C5_UserEventRefused
    /\ \A o \in 1..Len(pasteOps) :
          ~pasteOps[o].copy => pasteOps[o].absentInserted = 0

isNotConfigured(kind) == kind = "notConfigured"

\* C6: without an uploader a publish over two or more local references reports
\* the configuration error once and stops: no second 'not configured' notice,
\* no further reference is taken up.
C6_ConfigurationErrorReportedOnce ==
    ~r2Uploader.present =>
        /\ count(log.notices, isNotConfigured) <= 1
        /\ count(log.notices, isNotConfigured) = 1 => pc = "done"

\* The texts the claim C7 is about, described without the extraction: no
\* reference at all, or remote references only.
TextsWithoutReferences == textsOver({ 1 })
TextsWithRemoteOnly == textsOver({ 1, 4 })

\* C7: a text with no image reference, or with remote references only while
\* external download is off, is returned unchanged with 0 successes and 0
\* errors, and nothing is read, downloaded or uploaded for it.
C7_NothingToDo ==
    (/\ ret.valid
     /\ \/ ret.content \in TextsWithoutReferences
        \/ ret.content \in TextsWithRemoteOnly /\ ~settings.downloadExternalImages) =>
        /\ ret.updatedContent = ret.content
        /\ ret.successCount = 0
        /\ ret.errorCount = 0
        /\ \A k \in 1..Len(log.reads) : log.reads[k] # ret.fileContext
        /\ \A k \in 1..Len(log.downloads) : log.downloads[k] # ret.fileContext
        /\ \A k \in 1..Len(log.uploads) : log.uploads[k].doc # ret.fileContext
        /\ \A k \in 1..Len(log.written) : log.written[k] # ret.fileContext

\* A text holding a remote reference and nothing local was published with
\* external download off.
C7_Witness ==
    /\ ret.valid
    /\ ret.content = SegBody \o SegRemote
    /\ ~settings.downloadExternalImages
    /\ pc = "done"

\* The alt text C8 describes: empty, or the target without a known image
\* extension and with '-' and '_' turned into spaces.
claimedAlt(target) ==
    IF settings.useImageNameAsAltText
    THEN [ i \in 1..Len(stripImageExtension(target)) |->
             IF stripImageExtension(target)[i] \in { "-", "_" } THEN " "
             ELSE stripImageExtension(target)[i] ]
    ELSE << >>

\* C8: one local image reference, file found, upload succeeded with URL u: the
\* returned text is the input with that reference's text replaced by ![alt](u)
\* and nothing else changed, successCount = 1 and errorCount = 0.
C8_SingleReferenceRewritten ==
    (/\ ret.valid
     /\ Len(ret.localImageTags) = 1
     /\ Len(ret.externalImageTags) = 0
     /\ Len(ret.replacements) = 1
     /\ ~isVideoAsset(ret.localImageTags[1].imagePath)) =>
        LET tag == ret.localImageTags[1]
            u == ret.replacements[1].newUrl
        IN  /\ ret.updatedContent =
                   replaceFirstOccurrence(ret.content, tag.originalText,
                       << "!", "[" >> \o claimedAlt(tag.imagePath) \o << "]", "(" >> \o u \o << ")" >>)
            /\ ret.successCount = 1
            /\ ret.errorCount = 0

baseName(imagePath) == split(imagePath, "/")[Len(split(imagePath, "/"))]

\* C9: a local reference ends without a file (errorCount + 1, text unchanged)
\* only when the resolved path, the link index and the scan by base name all
\* fail; whatever made the first lookup fail, the other two are still made, so
\* a file the index or the scan can find is never given up.
C9_NotFoundOnlyAfterThreeLookups ==
    (ret.valid /\ ret.mode \in { "page", "folder", "vault", "selected" }) =>
        \A k \in 1..Len(ret.outcomes) :
            LET o == ret.outcomes[k]
            IN  (isLocalImage(o.tag.imagePath) /\ o.file = NoTFile /\ failed(o)) =>
                    /\ getFirstLinkpathDest(o.tag.imagePath) = NoTFile
                    /\ firstFileNamed(vaultFiles, baseName(o.tag.imagePath)) = NoTFile

isRelativeTarget(imagePath) ==
    /\ firstAt(imagePath, "/", 1) # 0
    /\ startsWith(imagePath, << ".", "/" >>) \/ startsWith(imagePath, << ".", ".", "/" >>)

\* C10: in every publish mode a target starting with ./ or ../ found in
\* document D is resolved against the folder of D, whichever note is active.
C10_ResolvedAgainstReferencingDocument ==
    ret.valid =>
        \A k \in 1..Len(ret.outcomes) :
            LET o == ret.outcomes[k]
            IN  isRelativeTarget(o.tag.imagePath) =>
                    /\ o.result # "resolveThrew"
                    /\ o.resolvedPath =
                           normalizePath(pathNormalize(pathJoin(docParent(ret.fileContext),
                                                                o.tag.imagePath)))

\* The outcomes of the references a call uploaded, in the order of its pairs.
uploadedOutcomes(outcomes) == SelectSeq(outcomes, LAMBDA o : o.result = "uploaded")

videoTagFor(url) == << "<video controls src=\"" >> \o url \o << "\"></video>" >>

\* The three signals of C11 for one uploaded reference and its pair.
saysVideo(outcome, pair) ==
    \/ startsWith(outcome.mimeType, << "video/" >>)
    \/ isVideoAsset(outcome.tag.imagePath)
    \/ isVideoAsset(pair.newUrl)

\* C11: in a whole-document publish an uploaded reference becomes the
\* <video controls src="url"></video> tag exactly when the declared MIME type of
\* the uploaded bytes is video/*, or its target or its URL passes the
\* video-extension test; otherwise it becomes an image tag.
C11_VideoIffAnySignal ==
    (ret.valid /\ ret.mode # "srcMain") =>
        \A k \in 1..Len(ret.replacements) :
            LET pair == ret.replacements[k]
                outcome == uploadedOutcomes(ret.outcomes)[k]
            IN  /\ contains(ret.updatedContent, videoTagFor(pair.newUrl))
                       <=> saysVideo(outcome, pair)
                /\ ~saysVideo(outcome, pair) =>
                       contains(ret.updatedContent,
                                << "]", "(" >> \o pair.newUrl \o << ")" >>)

\* A URL only for a status in [200,300); every other ending of the PUT is a
\* counted failure without a pair, and its text stays unless an identical
\* embed of the same document was uploaded.
C12_StatusDecides ==
    ret.valid =>
        /\ pairsMatchOutcomes(ret.replacements, ret.outcomes)
        /\ \A k \in 1..Len(ret.outcomes) :
              LET o == ret.outcomes[k]
              IN  /\ o.result = "uploaded" => (o.status >= 200 /\ o.status < 300)
                  /\ (o.status # NoStatus /\ ~(o.status >= 200 /\ o.status < 300)) =>
                         /\ o.result = "uploadFailed"
                         /\ (\A n \in 1..Len(ret.replacements) :
                                ret.replacements[n].originalText # o.tag.originalText) =>
                                countOccurrences(ret.updatedContent, o.tag.originalText)
                                    >= countOccurrences(ret.content, o.tag.originalText)

\* C12: an upload yields a URL only if its PUT completed with a status in
\* [200,300); after any other status or a transport-level error uploadImage
\* returned null: the reference is a counted failure, no pair stands for it and
\* its text is in the returned document as often as it was in the input.
C12_UrlOnlyForStatus2xx ==
    ret.valid =>
        /\ pairsMatchOutcomes(ret.replacements, ret.outcomes)
        /\ \A k \in 1..Len(ret.outcomes) :
              LET o == ret.outcomes[k]
              IN  /\ o.result = "uploaded" => (o.status >= 200 /\ o.status < 300)
                  /\ (o.status # NoStatus /\ ~(o.status >= 200 /\ o.status < 300)) =>
                         /\ o.result = "uploadFailed"
                         /\ countOccurrences(ret.updatedContent, o.tag.originalText)
                                >= countOccurrences(ret.content, o.tag.originalText)

\* C13: a successful upload returns {endpoint}/{bucket}/{key} when no custom
\* domain is configured and https://{customDomain}/{key} when one is, key being
\* the whole storage key the object was PUT under.
C13_PublicUrlShape ==
    \A i \in 1..Len(calls) :
        calls[i].pc = "resolved" =>
            calls[i].url =
                IF calls[i].startedWith.customDomainName = << >>
                THEN calls[i].startedWith.endpoint \o << "/" >>
                     \o calls[i].startedWith.bucket \o << "/" >> \o calls[i].key
                ELSE << "https://" >> \o calls[i].startedWith.customDomainName
                     \o << "/" >> \o calls[i].key

\* What C14 expects of customizeDomainName(url, customDomainName), computed
\* from the claim's words.
withoutHttps(customDomainName) == SelectSeq(customDomainName, LAMBDA c : c # "https://")

hasSchemeAndHost(url) ==
    Len(url) >= 2 /\ url[1] \in { "https://", "http://" } /\ ~hasSlash(url[2])

afterHost(url) ==
    IF firstAt(url, "/", 2) = 0 THEN << >> ELSE SubSeq(url, firstAt(url, "/", 2), Len(url))

\* C14: with a non-empty custom domain, a URL that starts with scheme://host
\* becomes 'https://' + domain + what follows the host, any other input becomes
\* 'https://' + domain + '/' + input; with an empty domain the input is returned
\* unchanged.
C14_CustomDomainReplacesHost ==
    applied.fn = "customizeDomainName" =>
        applied.result =
            IF withoutHttps(applied.customDomainName) = << >> THEN applied.url
            ELSE IF hasSchemeAndHost(applied.url)
            THEN << "https://" >> \o withoutHttps(applied.customDomainName)
                 \o afterHost(applied.url)
            ELSE << "https://" >> \o withoutHttps(applied.customDomainName)
                 \o << "/" >> \o applied.url

\* C17: extracting again from replaceImageTag(text, r, newUrl) gives a reference
\* whose target is newUrl, and r itself is no longer among the references.
C17_RoundTrip ==
    applied.fn = "replaceImageTag" =>
        /\ \E k \in 1..Len(extractImageTags(applied.result)) :
              extractImageTags(applied.result)[k].imagePath = applied.newUrl
        /\ \A k \in 1..Len(extractImageTags(applied.result)) :
              extractImageTags(applied.result)[k] # applied.imageTag

(***************************************************************************)
(* C15: with confirmBeforeUpload on, a paste or drop of image files starts  *)
(* no upload and inserts no placeholder until the dialog has been answered; *)
(* uploads start only after 'Upload' or 'Always Upload'; after 'Paste       *)
(* locally' or a dismissal the invocation never starts one; after 'Always   *)
(* Upload' the setting is off and saved by the time the uploads start.      *)
(***************************************************************************)
opActed(op) == op.inserted > 0 \/ op.started > 0 \/ Len(op.uploads) > 0

C15_ConfirmationGatesUploads ==
    \A o \in 1..Len(pasteOps) :
        LET op == pasteOps[o]
        IN  /\ op.pc = "modal" => op.confirmAtEntry /\ op.answer = "none"
            /\ op.pc = "saving" => op.answer = "alwaysUpload" /\ ~op.saved
            /\ op.confirmAtEntry /\ op.answer \in { "none", "pasteLocally", "dismissed" }
                   => ~opActed(op)
            /\ op.confirmAtEntry /\ opActed(op)
                   => op.answer \in { "upload", "alwaysUpload" }
            /\ op.answer = "alwaysUpload"
                   => /\ ~settings.confirmBeforeUpload
                      /\ opActed(op) => op.saved
            /\ op.copy => ~opActed(op)

\* Every answer has been given, and uploads started after both answers that
\* allow them.
C15_Witness ==
    \E o \in 1..Len(pasteOps) :
        /\ pasteOps[o].confirmAtEntry
        /\ pasteOps[o].answer = "alwaysUpload"
        /\ pasteOps[o].saved
        /\ pasteOps[o].started = MaxFiles

(***************************************************************************)
(* C16: a change of the configuration never changes an uploader object      *)
(* that exists; saveSettings puts a newly constructed object (or none) in   *)
(* its place, and an upload in flight goes on and finishes with the         *)
(* credentials, endpoint, bucket, path template and custom domain of the    *)
(* object it started on, never with a mix of old and new values.            *)
(***************************************************************************)
C16_UploadKeepsItsUploader ==
    /\ \A i \in 1..Len(calls) :
          /\ instances[calls[i].this] = calls[i].startedWith
          /\ calls[i].pc \in { "put", "resolved", "rejected" }
                 => calls[i].putWith = calls[i].startedWith
          /\ calls[i].pc \in { "resolved", "rejected" }
                 => calls[i].resolvedWith = calls[i].startedWith
          /\ calls[i].pc = "resolved"
                 => calls[i].url = publicUrl(calls[i].variant, calls[i].startedWith,
                                             calls[i].key)
    /\ ~settingsDirty
          => /\ r2Uploader.present <=> credentialsPresent(settings)
             /\ r2Uploader.present
                   => instances[r2Uploader.ref] = newR2Uploader(settings)

\* An upload that started before a change of the configuration was saved has
\* finished after the plugin holds an uploader with other values.
C16_Witness ==
    \E i \in 1..Len(calls) :
        /\ calls[i].pc = "resolved"
        /\ r2Uploader.present
        /\ r2Uploader.ref # calls[i].this
        /\ instances[r2Uploader.ref] # calls[i].startedWith
        /\ calls[i].resolvedWith = calls[i].startedWith

(***************************************************************************)
(* C18: a change made to a document's text while a publish of it is         *)
(* suspended on a file read or an upload (typed text, the tag a paste       *)
(* upload puts in the place of its placeholder) is still in the document    *)
(* after the publish has written its result back.                          *)
(***************************************************************************)
C18_ConcurrentChangeSurvives ==
    \A k \in 1..Len(log.edits) :
        indexOf(docText[log.edits[k].doc], editInserts(log.edits[k].kind), 1) # 0

(***************************************************************************)
(* C19: within the publish of one document at most one file read, download  *)
(* or upload is in flight at any time, and the work on reference i+1 starts *)
(* only after the upload of reference i has settled.                        *)
(***************************************************************************)
startedOperations == Len(log.reads) + Len(log.downloads) + Len(log.uploads)

inFlight == startedOperations - log.settled

\* The reads and downloads the current call has started for its references.
referencesStarted ==
    Len(SelectSeq(log.reads, LAMBDA d : d = job.fileContext))
    + Len(SelectSeq(log.downloads, LAMBDA d : d = job.fileContext))

C19_OneReferenceAtATime ==
    /\ inFlight \in { 0, 1 }
    /\ inFlight = 1 <=> pc \in { "readBinary", "download", "upload" }
    /\ referencesStarted <= Len(job.outcomes) + inFlight

\* The second reference's upload is in flight, the first one's has settled.
C19_Witness ==
    /\ pc = "upload"
    /\ Len(log.uploads) = 2
    /\ Len(job.outcomes) = 1
    /\ job.outcomes[1].result = "uploaded"
    /\ inFlight = 1

(***************************************************************************)
(* C20: the folder, vault and selected-files commands take their documents  *)
(* one at a time in the order of the list: document k+1 is read only after  *)
(* every reference of document k has been gone through and, if document k   *)
(* changed, after it has been written back.                                *)
(***************************************************************************)
docsOf(records) == [ k \in 1..Len(records) |-> records[k].doc ]

changedDocs ==
    docsOf(SelectSeq(log.finished, LAMBDA record : record.changed))

attemptedTags == ret.localImageTags \o ret.externalImageTags

C21_CountsAddUp ==
    ret.valid =>
        /\ ret.successCount + ret.errorCount = Len(attemptedTags)
        /\ Len(ret.outcomes) = Len(attemptedTags)
        /\ \A k \in 1..Len(ret.outcomes) : ret.outcomes[k].tag = attemptedTags[k]
        /\ ret.successCount = count(ret.outcomes, LAMBDA o : o.result = "uploaded")
        /\ ret.errorCount = count(ret.outcomes, failed)
        /\ Len(ret.replacements) = ret.successCount
        /\ Len(ret.externalImageTags) > 0 => settings.downloadExternalImages

\* A call returned with a local and a remote reference attempted, one of them
\* uploaded and the other failed.
C21_Witness ==
    /\ ret.valid
    /\ Len(ret.localImageTags) = 1
    /\ Len(ret.externalImageTags) = 1
    /\ ret.successCount = 1
    /\ ret.errorCount = 1

(***************************************************************************)
(* C22: when an upload started by a paste or drop settles, the first        *)
(* occurrence of its own placeholder is what gets replaced (by the embed    *)
(* tag or by the failure comment), also with several uploads in flight      *)
(* settling in any order; once all uploads of the event have settled, no    *)
(* placeholder of the event is left in the note it was inserted into.       *)
(***************************************************************************)
settledUpload(u) == u.status \in { "uploaded", "failed" }

C22_OwnPlaceholderReplaced ==
    \A o \in 1..Len(pasteOps) :
        LET uploads == pasteOps[o].uploads
        IN  /\ \A k \in 1..Len(uploads) : settledUpload(uploads[k]) => uploads[k].found
            /\ (\A k \in 1..Len(uploads) : settledUpload(uploads[k]))
                   => \A k \in 1..Len(uploads) :
                          uploads[k].note = EventNote
                             => ~contains(editor, progressTextFor(uploads[k].id))

\* The same, for the uploads that settle while the note their placeholder is
\* in is the active one.
C22_HoldsWhileNoteStaysActive ==
    \A o \in 1..Len(pasteOps) :
        LET uploads == pasteOps[o].uploads
        IN  /\ \A k \in 1..Len(uploads) :
                   settledUpload(uploads[k]) /\ ~uploads[k].found
                      => uploads[k].note # EventNote \/ contains(editor, progressTextFor(uploads[k].id))
            /\ (\A k \in 1..Len(uploads) : uploads[k].status \in { "uploaded", "failed" } /\ uploads[k].found)
                   => \A k \in 1..Len(uploads) :
                          ~contains(editor, progressTextFor(uploads[k].id))

(***************************************************************************)
(* C23: for one paste event carrying several images the local-paste         *)
(* fallback (a copy of the event, with all its files, handed to the host's  *)
(* paste handler) runs at most once, however many of its uploads fail.      *)
(***************************************************************************)
C23_FallbackAtMostOnce ==
    \A o \in 1..Len(pasteOps) :
        pasteOps[o].kind = "paste" /\ ~pasteOps[o].copy => pasteOps[o].fallbacks <= 1

(***************************************************************************)
(* C24: a publish writes a document back (editor.setValue, vault.modify)    *)
(* only if at least one of its references was uploaded; a document whose    *)
(* publish ended with successCount = 0 is never written, whatever its       *)
(* errorCount.                                                              *)
(***************************************************************************)
C24_WrittenOnlyAfterSuccess ==
    /\ job.mode \in { "page", "srcMain" }
          => /\ log.written # << >>
                   => ret.valid /\ ret.successCount > 0 /\ log.written = << ret.fileContext >>
             /\ ret.valid /\ ret.successCount = 0
                   => log.written = << >> /\ docText[ret.fileContext] = ret.content
    /\ job.mode \in { "folder", "vault", "selected" }
          => /\ pc = "modify" => ret.valid /\ ret.successCount > 0
             /\ \A k \in 1..Len(log.finished) :
                    (\E w \in 1..Len(log.written) : log.written[w] = log.finished[k].doc)
                       <=> log.finished[k].changed
             /\ \A w \in 1..Len(log.written) :
                    \E k \in 1..Len(log.finished) :
                        log.finished[k].doc = log.written[w] /\ log.finished[k].changed
    /\ job.mode = "none" => log.written = << >>

\* A publish ended with errors and no success, and the document was left alone.
C24_Witness ==
    /\ pc = "done"
    /\ ret.valid
    /\ ret.successCount = 0
    /\ ret.errorCount > 0
    /\ log.written = << >>
    /\ docText[ret.fileContext] = ret.content

(***************************************************************************)
(* C25: the text a whole-document publish returns does not depend on the    *)
(* order of the (originalText, newUrl) pairs of the plan: the same pairs    *)
(* applied in any other order give the same text.                           *)
(***************************************************************************)
reordered(plan, order) == [ k \in 1..Len(plan) |-> plan[order[k]] ]

C25_PlanOrderIrrelevant ==
    (ret.valid /\ ~ret.threw) =>
        \A order \in Permutations(1..Len(ret.replacements)) :
            applyReplacements(ret.content, reordered(ret.replacements, order),
                              settings.useImageNameAsAltText)
                = ret.updatedContent

\* The same for plans whose pairs have different original texts.
C25_HoldsForDistinctTexts ==
    (/\ ret.valid /\ ~ret.threw
     /\ \A i, k \in 1..Len(ret.replacements) :
            i # k => ret.replacements[i].originalText # ret.replacements[k].originalText) =>
        \A order \in Permutations(1..Len(ret.replacements)) :
            applyReplacements(ret.content, reordered(ret.replacements, order),
                              settings.useImageNameAsAltText)
                = ret.updatedContent

(***************************************************************************)
(* C26: the signature is hex(HMAC(kSigning, stringToSign)) with             *)
(* kDate = HMAC("AWS4"+secretKey, dateStamp), kRegion = HMAC(kDate, region),*)
(* kService = HMAC(kRegion, service), kSigning = HMAC(kService,             *)
(* "aws4_request"), every stage keyed with the raw output of the stage      *)
(* before; for every input the computation completes with that value.       *)
(***************************************************************************)
HMAC(key, data) == << "HMAC", key, encode(data).value >>

claimedSignature(key, dateStamp, stringToSign) ==
    hexString(
        HMAC(HMAC(HMAC(HMAC(HMAC(encode(<< "AWS4" >> \o key).value, dateStamp), Region),
                       Service),
                  Aws4Request),
             stringToSign))

C26_SignatureChain ==
    applied.fn = "getSignatureKey" =>
        /\ ~applied.result.threw
        /\ applied.result.value
              = claimedSignature(applied.key, applied.dateStamp, applied.stringToSign)

(***************************************************************************)
(* C27: in the SigV4 uploader the request the signature covers is the       *)
(* request that is sent: the canonical URI is the path of the URL the PUT   *)
(* goes to and the signed host is that URL's host, for every endpoint,      *)
(* bucket and key.                                                          *)
(***************************************************************************)
urlHost(url) ==
    IF firstAt(withoutScheme(url), "/", 1) = 0 THEN withoutScheme(url)
    ELSE SubSeq(withoutScheme(url), 1, firstAt(withoutScheme(url), "/", 1) - 1)

urlPath(url) ==
    IF firstAt(withoutScheme(url), "/", 1) = 0 THEN << "/" >>
    ELSE SubSeq(withoutScheme(url), firstAt(withoutScheme(url), "/", 1),
                Len(withoutScheme(url)))

\* `${this.endpoint}/${this.bucketName}/${cleanPath}`, the URL given to fetch.
putUrl(call) == objectUrl(call.putWith.endpoint, call.putWith.bucket, call.key)

C27_SignedRequestIsSentRequest ==
    \A i \in 1..Len(calls) :
        calls[i].request.signed =>
            /\ calls[i].request.canonicalUri = urlPath(putUrl(calls[i]))
            /\ calls[i].request.host = urlHost(putUrl(calls[i]))

\* The part of C27 that holds: the signed host is the host of the URL.
C27_SignedHostIsUrlHost ==
    \A i \in 1..Len(calls) :
        calls[i].request.signed => calls[i].request.host = urlHost(putUrl(calls[i]))

C28_NothingElseIsSent ==
    \A i \in 1..Len(calls) :
        /\ calls[i].request.signed
              => /\ calls[i].request.hashedBody = arrayBufferOf(calls[i].name)
                 /\ calls[i].request.payloadHash = sha256(arrayBufferOf(calls[i].name))
        /\ calls[i].sentBody \in { NoBody, arrayBufferOf(calls[i].name) }

(***************************************************************************)
(* C29: an external-image download is rejected as soon as the declared      *)
(* content-length exceeds 50 MB or the bytes accumulated so far exceed      *)
(* 50 MB, whichever comes first; a rejected download yields no file, is     *)
(* never uploaded, adds no replacement pair and counts as exactly one       *)
(* error.                                                                   *)
(***************************************************************************)
FiftyMegabytes == 52428800

RECURSIVE sumOfFirst(_, _)
sumOfFirst(chunks, n) == IF n = 0 THEN 0 ELSE sumOfFirst(chunks, n - 1) + chunks[n]

declaredOver(res) == res.contentLength.present /\ res.contentLength.digits > FiftyMegabytes

accumulatedOver(res, n) == sumOfFirst(res.chunks, n) > FiftyMegabytes

\* The number of 'data' events after which the size limit is first exceeded:
\* 0 for the declared length, Len(chunks) + 1 when nothing exceeds it.
firstExcess(res) ==
    IF declaredOver(res) THEN 0
    ELSE IF \E n \in 1..Len(res.chunks) : accumulatedOver(res, n)
    THEN CHOOSE n \in 1..Len(res.chunks) :
             /\ accumulatedOver(res, n)
             /\ \A k \in 1..(n - 1) : ~accumulatedOver(res, k)
    ELSE Len(res.chunks) + 1

\* A response that passes the status and content-type checks.
acceptable(res) ==
    /\ res.statusCode >= 200 /\ res.statusCode < 300
    /\ Head(res.contentType) \in { "image/", "video/" }

externalOutcomes == SelectSeq(job.outcomes, LAMBDA o : o.download.requested)

C29_OversizeDownloadRejected ==
    /\ \A k \in 1..Len(job.outcomes) :
          LET o == job.outcomes[k]
          IN  o.download.requested =>
                  /\ (acceptable(o.download.response)
                        /\ firstExcess(o.download.response)
                               <= Len(o.download.response.chunks))
                       => /\ o.download.settled.rejected
                          /\ o.download.settled.consumed = firstExcess(o.download.response)
                  /\ o.download.settled.rejected
                       => /\ o.result = "downloadError"
                          /\ o.mimeType = << >>
                          /\ o.status = NoStatus
    /\ job.errorCount = count(job.outcomes, failed)
    /\ pairsMatchOutcomes(job.replacements, job.outcomes)
    /\ pc = "upload" =>
          (job.download.requested => ~job.download.settled.rejected)

\* A lying content-length let the download start and the second chunk took
\* the total over the limit, or the first chunk alone did.
C29_Witness ==
    \E k \in 1..Len(job.outcomes) :
        /\ job.outcomes[k].download.requested
        /\ job.outcomes[k].download.settled.reason = "tooLarge"
        /\ job.outcomes[k].download.settled.consumed >= 1
        /\ job.errorCount >= 1

(***************************************************************************)
(* C30: unique file name generation.  The extension is what follows the     *)
(* last '.' of the original name, and 'png' when the name has no '.'; a     *)
(* name whose lower-cased form contains 'image', or the name 'blob', gives  *)
(* 'Pasted image {timestamp}.{ext}', any other name gives                   *)
(* '{nameWithoutExt} {timestamp}.{ext}' with the extension stripped from    *)
(* the original name.                                                       *)
(***************************************************************************)
hasDot(name) == \E i \in 1..Len(name) : name[i] = "."

afterLastDot(name) == SubSeq(name, lastIndexOf(name, ".") + 1, Len(name))

claimedExtension(name) == IF hasDot(name) THEN afterLastDot(name) ELSE << "png" >>

claimedStem(name) ==
    IF hasDot(name) THEN SubSeq(name, 1, lastIndexOf(name, ".") - 1) ELSE name

isGeneric(name) ==
    \/ \E i \in 1..Len(name) : name[i] \in { "image", "Image" }
    \/ name = << "blob" >>

claimedUniqueFileName(name) ==
    IF isGeneric(name)
    THEN << "Pasted image", " " >> \o Timestamp \o << "." >> \o claimedExtension(name)
    ELSE claimedStem(name) \o << " " >> \o Timestamp \o << "." >> \o claimedExtension(name)

C30_UniqueFileName ==
    applied.fn = "generateUniqueFileName" =>
        applied.result = claimedUniqueFileName(applied.originalName)

\* The claim holds for the names that have a '.' with something after it.
C30_HoldsForNamesWithExtension ==
    (/\ applied.fn = "generateUniqueFileName"
     /\ hasDot(applied.originalName)
     /\ Len(afterLastDot(applied.originalName)) > 0) =>
        applied.result = claimedUniqueFileName(applied.originalName)

====
